---- MODULE Spec2Model ----
(***************************************************************************)
(* Verification model of the multi-format geospatial input pipeline of     *)
(* geohelpertool (utils/geoJsonParser.ts): the four format parsers, the    *)
(* partial-GeoJSON fallback and the multi-format dispatcher.               *)
(*                                                                         *)
(* Strings are sequences of one-character strings.  JavaScript values are  *)
(* records tagged by t ("null", "number", "string", "array", "object");    *)
(* an object's own keys are the DOMAIN of its field o, so a missing key is *)
(* an undefined one.  A ParseResult is a record whose DOMAIN holds exactly *)
(* the fields that are defined.  A thrown exception is the record          *)
(* [thrown |-> message].                                                   *)
(*                                                                         *)
(* The libraries the parsers call (JSON.parse, geojson-validation's valid, *)
(* turf's booleanValid, wkt.parse, polyline.decode) are not part of the    *)
(* repository: their answer on an input is a field of the input record,    *)
(* drawn in Init from every outcome the call site can observe.             *)
(*                                                                         *)
(* The later sections model the line clipper (utils/lineClipping.ts), the  *)
(* MapLayerManager (utils/mapLayerManager.ts: map holds the sources and    *)
(* layers of the map, layerGroups the manager's bookkeeping) and the layer *)
(* state of the application (layerReducer and the useLayerState hook:      *)
(* state is the reducer's state, rendered the ids of state.layers at the   *)
(* last render, which the hook's callbacks close over).                    *)
(***************************************************************************)
EXTENDS Integers, Sequences, FiniteSets, TLC

VARIABLES input, called, result, threw, map, layerGroups, state, rendered

vars == <<input, called, result, threw, map, layerGroups, state, rendered>>

----------------------------------------------------------------------------
(* Bounds of the model *)

\* longest text of SpecList, in pieces of ListPieces
MaxPieces == 3
\* longest text of Spec, in pieces of GenPieces
MaxGenPieces == 2

\* features in a FeatureCollection the JSON oracle may return
MaxFeatures == 2

\* coordinate pairs the polyline decoder may return
MaxDecoded == 2

----------------------------------------------------------------------------
(* Characters and strings *)

DigitChars == {"0", "1", "2", "3", "4", "5", "6", "7", "8", "9"}

IsDigit(c) == c \in DigitChars

\* \s of a JavaScript regular expression, and what String.prototype.trim strips
IsSpace(c) == c \in {" ", "\t", "\n"}

DigitVal(c) ==
  CASE c = "0" -> 0 [] c = "1" -> 1 [] c = "2" -> 2 [] c = "3" -> 3
    [] c = "4" -> 4 [] c = "5" -> 5 [] c = "6" -> 6 [] c = "7" -> 7
    [] c = "8" -> 8 [] c = "9" -> 9

RECURSIVE trimStart(_)
trimStart(s) ==
  IF s # <<>> /\ IsSpace(Head(s)) THEN trimStart(Tail(s)) ELSE s

RECURSIVE trimEnd(_)
trimEnd(s) ==
  IF s # <<>> /\ IsSpace(s[Len(s)]) THEN trimEnd(SubSeq(s, 1, Len(s) - 1)) ELSE s

trim(s) == trimEnd(trimStart(s))

\* number of consecutive digits of s from position i on
RECURSIVE DigitRun(_, _)
DigitRun(s, i) ==
  IF i <= Len(s) /\ IsDigit(s[i]) THEN 1 + DigitRun(s, i + 1) ELSE 0

CharAt(s, i) == IF i >= 1 /\ i <= Len(s) THEN s[i] ELSE ""

----------------------------------------------------------------------------
(* Numbers: a decimal  (+/-) 0.d1 d2 ... dn * 10^exp  with d1 # 0, dn # 0; *)
(* zero has no digits.                                                     *)

Zero(neg) == [neg |-> neg, digs |-> <<>>, exp |-> 0]

RECURSIVE StripLeading(_, _, _)
StripLeading(neg, digs, exp) ==
  IF digs = <<>> THEN Zero(neg)
  ELSE IF Head(digs) = 0 THEN StripLeading(neg, Tail(digs), exp - 1)
  ELSE [neg |-> neg, digs |-> digs, exp |-> exp]

RECURSIVE StripTrailing(_)
StripTrailing(digs) ==
  IF digs # <<>> /\ digs[Len(digs)] = 0
  THEN StripTrailing(SubSeq(digs, 1, Len(digs) - 1)) ELSE digs

Normalize(neg, digs, exp) == StripLeading(neg, StripTrailing(digs), exp)

RECURSIVE NatDigits(_)
NatDigits(n) == IF n < 10 THEN <<n>> ELSE Append(NatDigits(n \div 10), n % 10)

\* the number n, an integer
Dec(n) ==
  IF n < 0 THEN Normalize(TRUE, NatDigits(-n), Len(NatDigits(-n)))
  ELSE Normalize(FALSE, NatDigits(n), Len(NatDigits(n)))

Sign(a) == IF a.digs = <<>> THEN 0 ELSE IF a.neg THEN -1 ELSE 1

RECURSIVE LexLess(_, _)
LexLess(d1, d2) ==
  IF d2 = <<>> THEN FALSE
  ELSE IF d1 = <<>> THEN TRUE
  ELSE IF Head(d1) # Head(d2) THEN Head(d1) < Head(d2)
  ELSE LexLess(Tail(d1), Tail(d2))

\* |a| < |b| for a, b # 0
MagLess(a, b) ==
  IF a.exp # b.exp THEN a.exp < b.exp ELSE LexLess(a.digs, b.digs)

\* a < b
Less(a, b) ==
  IF Sign(a) # Sign(b) THEN Sign(a) < Sign(b)
  ELSE IF Sign(a) = 0 THEN FALSE
  ELSE IF Sign(a) = 1 THEN MagLess(a, b)
  ELSE MagLess(b, a)

\* value of a run of digits, saturating (an exponent beyond 400 is beyond
\* every double)
RECURSIVE DigitsToNat(_, _)
DigitsToNat(ds, acc) ==
  IF ds = <<>> THEN acc
  ELSE DigitsToNat(Tail(ds),
         IF acc * 10 + DigitVal(Head(ds)) > 400 THEN 400
         ELSE acc * 10 + DigitVal(Head(ds)))

\* parseFloat on a numeral  -?d+[.d*][(e|E)[+|-]d+]
parseFloat(m) ==
  LET neg    == CharAt(m, 1) = "-"
      p1     == IF neg THEN 2 ELSE 1
      nInt   == DigitRun(m, p1)
      p2     == p1 + nInt
      hasDot == CharAt(m, p2) = "."
      nFrac  == IF hasDot THEN DigitRun(m, p2 + 1) ELSE 0
      p3     == IF hasDot THEN p2 + 1 + nFrac ELSE p2
      eSign  == CharAt(m, p3 + 1) \in {"+", "-"}
      p4     == IF eSign THEN p3 + 2 ELSE p3 + 1
      hasExp == CharAt(m, p3) \in {"e", "E"} /\ DigitRun(m, p4) > 0
      eAbs   == IF hasExp
                THEN DigitsToNat(SubSeq(m, p4, p4 + DigitRun(m, p4) - 1), 0)
                ELSE 0
      e      == IF CharAt(m, p3 + 1) = "-" THEN -eAbs ELSE eAbs
      digs   == [i \in 1..(nInt + nFrac) |->
                   DigitVal(IF i <= nInt THEN m[p1 + i - 1] ELSE m[p2 + i - nInt])]
      v      == Normalize(neg, digs, nInt + e)
  IN  \* below the smallest double the value is (signed) zero
      IF v.exp < -323 THEN Zero(neg) ELSE v

----------------------------------------------------------------------------
(* JavaScript values *)

Str(s) == [t |-> "string", s |-> s]
Num(d) == [t |-> "number", v |-> d]
Arr(a) == [t |-> "array", a |-> a]
Obj(r) == [t |-> "object", o |-> r]
Null == [t |-> "null"]
Undefined == [t |-> "undefined"]

\* the string argument a parser is given: its characters, and what JSON.parse
\* makes of it
TextValue(inp) == [t |-> "string", chars |-> inp.text, json |-> inp.json]

\* the object {} : a record with no fields
EmptyRecord == [k \in {} |-> Undefined]

\* v.k of JavaScript, for v an object or an array (a missing key reads as undefined)
Get(v, k) ==
  IF v.t = "object" /\ k \in DOMAIN v.o THEN v.o[k] ELSE Undefined

\* typeof v === "object" && v !== null
IsObjectLike(v) == v.t \in {"object", "array"}

\* !!v
Truthy(v) ==
  CASE v.t \in {"null", "undefined"} -> FALSE
    [] v.t = "number" -> v.v.digs # <<>>
    [] v.t = "string" -> IF "s" \in DOMAIN v THEN v.s # "" ELSE v.chars # <<>>
    [] OTHER -> TRUE

----------------------------------------------------------------------------
(* LayerType (types/layer.ts) and ERROR_CODES *)

LayerType ==
  [GEOJSON |-> "geojson", KML |-> "kml", COORDINATES |-> "coordinates",
   WKT |-> "wkt", POLYLINE |-> "polyline"]

ERROR_CODES ==
  [INVALID_JSON |-> "INVALID_JSON",
   INVALID_GEOJSON_SCHEMA |-> "INVALID_GEOJSON_SCHEMA",
   INVALID_GEOMETRY |-> "INVALID_GEOMETRY",
   UNSUPPORTED_TYPE |-> "UNSUPPORTED_TYPE",
   MISSING_COORDINATES |-> "MISSING_COORDINATES",
   MALFORMED_COORDINATES |-> "MALFORMED_COORDINATES",
   FEATURE_GEOMETRY_ERROR |-> "FEATURE_GEOMETRY_ERROR",
   VALIDATION_ERROR |-> "VALIDATION_ERROR",
   PARSING_ERROR |-> "PARSING_ERROR",
   POLYLINE_ERROR |-> "POLYLINE_ERROR",
   WKT_ERROR |-> "WKT_ERROR",
   LATLNG_LIST_ERROR |-> "LATLNG_LIST_ERROR",
   AUTO_DETECTION_ERROR |-> "AUTO_DETECTION_ERROR"]

----------------------------------------------------------------------------
(* Results and exceptions *)

\* createErrorResult leaving the details out
createErrorResult_NoDetails(error, errorCode, errorDetails) ==
  [success |-> FALSE, error |-> error, errorCode |-> errorCode]

createErrorResult(error, errorCode, errorDetails) ==
  [success |-> FALSE, error |-> error, errorCode |-> errorCode,
   errorDetails |-> errorDetails]

Throw(message) == [thrown |-> message]

IsThrow(r) == "thrown" \in DOMAIN r

\* a try block without its catch
catchAll_Rethrow(r, prefix, errorCode, errorDetails) == r

\* try { ... return r } catch (error) { return createErrorResult(`${prefix}${error}`, ...) }
catchAll(r, prefix, errorCode, errorDetails) ==
  IF IsThrow(r)
  THEN createErrorResult(prefix \o r.thrown, errorCode, errorDetails)
  ELSE r

----------------------------------------------------------------------------
(* Lat/Lng list parser *)

\* length of the match of /-?\d+(?:\.\d+)?(?:[eE][+-]?\d+)?/ at position i, 0 if none
numberMatchAt(s, i) ==
  LET p1 == IF CharAt(s, i) = "-" THEN i + 1 ELSE i
      d1 == DigitRun(s, p1)
      p2 == p1 + d1
      f  == IF CharAt(s, p2) = "." /\ DigitRun(s, p2 + 1) > 0
            THEN 1 + DigitRun(s, p2 + 1) ELSE 0
      p3 == p2 + f
      p4 == IF CharAt(s, p3 + 1) \in {"+", "-"} THEN p3 + 2 ELSE p3 + 1
      e  == IF CharAt(s, p3) \in {"e", "E"} /\ DigitRun(s, p4) > 0
            THEN p4 + DigitRun(s, p4) - p3 ELSE 0
  IN  IF d1 = 0 THEN 0 ELSE p3 + e - i

\* s.match(/.../g): the successive leftmost matches (the empty sequence for null)
RECURSIVE matchNumbers(_, _)
matchNumbers(s, i) ==
  IF i > Len(s) THEN <<>>
  ELSE LET n == numberMatchAt(s, i)
       IN  IF n = 0 THEN matchNumbers(s, i + 1)
           ELSE <<SubSeq(s, i, i + n - 1)>> \o matchNumbers(s, i + n)

\* the Point feature annotated with the index from 0
pointFeature_ZeroBased(coord, index) ==
  Obj([type |-> Str("Feature"),
       geometry |-> Obj([type |-> Str("Point"), coordinates |-> Arr(coord)]),
       properties |-> Obj([index |-> Num(Dec(index))])])

\* the Point feature made of the index-th coordinate (index from 0)
pointFeature(coord, index) ==
  Obj([type |-> Str("Feature"),
       geometry |-> Obj([type |-> Str("Point"), coordinates |-> Arr(coord)]),
       properties |-> Obj([index |-> Num(Dec(index + 1))])])

\* the for loop over the pairs, from pair i on (i from 0, in pairs), with the
\* coordinates pushed so far; ends in an error result or in the coordinates
RECURSIVE latLngPairs(_, _, _)

\* the body of the loop with the bounds themselves out of range
latLngPair_Exclusive(numbers, i, coordinates, lat, lng) ==
  IF ~Less(Dec(-90), lat) \/ ~Less(lat, Dec(90))
  THEN createErrorResult("Invalid latitude value",
         ERROR_CODES.LATLNG_LIST_ERROR,
         "Latitude must be between -90 and 90.")
  ELSE IF ~Less(Dec(-180), lng) \/ ~Less(lng, Dec(180))
  THEN createErrorResult("Invalid longitude value",
         ERROR_CODES.LATLNG_LIST_ERROR,
         "Longitude must be between -180 and 180.")
  ELSE latLngPairs(numbers, i + 1, Append(coordinates, <<Num(lng), Num(lat)>>))

\* the body of the loop for pair i, whose numerals parse to lat and lng
latLngPair(numbers, i, coordinates, lat, lng) ==
  \* isNaN(lat) || isNaN(lng) never holds: every match is a numeral
  IF Less(lat, Dec(-90)) \/ Less(Dec(90), lat)
  THEN createErrorResult("Invalid latitude value",
         ERROR_CODES.LATLNG_LIST_ERROR,
         "Latitude must be between -90 and 90.")
  ELSE IF Less(lng, Dec(-180)) \/ Less(Dec(180), lng)
  THEN createErrorResult("Invalid longitude value",
         ERROR_CODES.LATLNG_LIST_ERROR,
         "Longitude must be between -180 and 180.")
  ELSE latLngPairs(numbers, i + 1, Append(coordinates, <<Num(lng), Num(lat)>>))

latLngPairs(numbers, i, coordinates) ==
  IF 2 * i >= Len(numbers) THEN [coordinates |-> coordinates]
  ELSE latLngPair(numbers, i, coordinates,
         parseFloat(numbers[2 * i + 1]), parseFloat(numbers[2 * i + 2]))

\* parseLatLngList after the loop: loop is what the loop ended in
latLngCollected(loop) ==
  IF "coordinates" \notin DOMAIN loop THEN loop
  ELSE IF Len(loop.coordinates) = 0
  THEN createErrorResult("No valid coordinates found",
         ERROR_CODES.LATLNG_LIST_ERROR,
         "No valid coordinate pairs could be parsed from the input")
  ELSE
    [success |-> TRUE,
     data |-> Obj([type |-> Str("FeatureCollection"),
                   features |-> Arr([k \in 1..Len(loop.coordinates) |->
                                       pointFeature(loop.coordinates[k], k - 1)])]),
     type |-> "FeatureCollection",
     format |-> LayerType.COORDINATES,
     geometryCount |-> Len(loop.coordinates),
     styleProperties |-> <<>>]

\* the body of parseLatLngList once the numbers are extracted
latLngFromNumbers(cleanInput, numbers) ==
  IF cleanInput = <<>>
  THEN createErrorResult("Empty lat/lng list", ERROR_CODES.LATLNG_LIST_ERROR,
         "Lat/lng list cannot be empty")
  ELSE IF Len(numbers) = 0
  THEN createErrorResult("No valid numbers found", ERROR_CODES.LATLNG_LIST_ERROR,
         "Could not find any valid coordinate numbers in the input")
  ELSE IF Len(numbers) % 2 # 0
  THEN createErrorResult("Odd number of coordinates", ERROR_CODES.LATLNG_LIST_ERROR,
         "Found an odd count of numbers, but coordinates must come in pairs (latitude, longitude)")
  ELSE latLngCollected(latLngPairs(numbers, 0, <<>>))

parseLatLngList(inp) ==
  catchAll(latLngFromNumbers(trim(inp.text), matchNumbers(trim(inp.text), 1)),
           "Lat/lng list parsing failed: ", ERROR_CODES.LATLNG_LIST_ERROR,
           "Failed to parse lat/lng list. Please verify the format.")

----------------------------------------------------------------------------
(* The libraries, as the call sites see them *)

\* JSON.parse(text): a thrown SyntaxError or the decoded value
JSONparse(inp) == inp.json

\* valid(parsedData).valid of geojson-validation, read as the code reads it
strictValid(inp) == inp.strict

\* booleanValid(geometry) of turf: "valid", "invalid" or "throws"; the answer
\* travels with the geometry value
booleanValid(g) == IF "bv" \in DOMAIN g THEN g.bv ELSE "invalid"

\* wkt.parse(text): a thrown error, null, or a geometry
wktParse(inp) == inp.wkt

\* polyline.decode(s): a thrown error or [coords |-> the [lat, lng] pairs];
\* one answer for the trimmed text and one for any other string
polylineDecode(inp, s) == IF s = trim(inp.text) THEN inp.decRaw ELSE inp.decAlt

----------------------------------------------------------------------------
(* decodeURI *)

HexChars == DigitChars \cup {"a", "b", "c", "d", "e", "f", "A", "B", "C", "D", "E", "F"}

HexVal(c) ==
  CASE c \in DigitChars -> DigitVal(c)
    [] c \in {"a", "A"} -> 10 [] c \in {"b", "B"} -> 11 [] c \in {"c", "C"} -> 12
    [] c \in {"d", "D"} -> 13 [] c \in {"e", "E"} -> 14 [] c \in {"f", "F"} -> 15

IsEscape(s, i) ==
  CharAt(s, i) = "%" /\ CharAt(s, i + 1) \in HexChars /\ CharAt(s, i + 2) \in HexChars

EscapeVal(s, i) == 16 * HexVal(s[i + 1]) + HexVal(s[i + 2])

\* the character of an ASCII code; a character the texts of the model never
\* hold keeps its code
CharOfCode(b) ==
  CASE b = 9 -> "\t" [] b = 10 -> "\n" [] b = 32 -> " " [] b = 37 -> "%"
    [] b = 45 -> "-" [] b = 46 -> "." [] b = 92 -> "\\"
    [] b \in 48..57 -> CHOOSE c \in DigitChars : DigitVal(c) = b - 48
    [] b = 80 -> "P" [] b = 101 -> "e" [] b = 120 -> "x"
    [] OTHER -> "\\x" \o ToString(b)

\* codes of  ; / ? : @ & = + $ , #  which decodeURI leaves escaped
ReservedCodes == {59, 47, 63, 58, 64, 38, 61, 43, 36, 44, 35}

\* continuation bytes a UTF-8 lead byte needs
Continuations(b) == IF b < 224 THEN 1 ELSE IF b < 240 THEN 2 ELSE 3

RECURSIVE AreContinuations(_, _, _)
AreContinuations(s, i, n) ==
  n = 0 \/ (IsEscape(s, i) /\ EscapeVal(s, i) \in 128..191
            /\ AreContinuations(s, i + 3, n - 1))

\* decodeURI(s) from position i on: [ok |-> decoded] or a thrown URIError
RECURSIVE decodeURIFrom(_, _, _)
decodeURIFrom(s, i, out) ==
  IF i > Len(s) THEN [ok |-> out]
  ELSE IF s[i] # "%" THEN decodeURIFrom(s, i + 1, Append(out, s[i]))
  ELSE IF ~IsEscape(s, i) THEN Throw("URIError: URI malformed")
  ELSE LET b == EscapeVal(s, i)
       IN  IF b < 128
           THEN IF b \in ReservedCodes
                THEN decodeURIFrom(s, i + 3, out \o SubSeq(s, i, i + 2))
                ELSE decodeURIFrom(s, i + 3, Append(out, CharOfCode(b)))
           ELSE IF b \in 194..244 /\ AreContinuations(s, i + 3, Continuations(b))
           THEN decodeURIFrom(s, i + 3 + 3 * Continuations(b), Append(out, "\\u"))
           ELSE Throw("URIError: URI malformed")

decodeURI(s) == decodeURIFrom(s, 1, <<>>)

----------------------------------------------------------------------------
(* Encoded polyline parser *)

\* the options argument left out by the caller
NoOptions == [none |-> TRUE]

\* options.unescape, truthy
unescapeOption(options) == "unescape" \in DOMAIN options /\ options.unescape

\* /^[\d,.-]+$/.test(s): white space left out of the class
looksLikeCoordinateList_NoSpace(s) ==
  /\ Len(s) > 0
  /\ \A i \in 1..Len(s) : IsDigit(s[i]) \/ s[i] \in {",", ".", "-"}

\* /^[\d\s,.-]+$/.test(s)
looksLikeCoordinateList(s) ==
  /\ Len(s) > 0
  /\ \A i \in 1..Len(s) : IsDigit(s[i]) \/ IsSpace(s[i]) \/ s[i] \in {",", ".", "-"}

\* coordinates.map without the validation and without the swap
validateCoordinates_AsDecoded(coordinates, i, out) ==
  [ok |-> [k \in 1..Len(coordinates) |->
             Arr(<<Num(coordinates[k][1]), Num(coordinates[k][2])>>)]]

\* coordinates.map(validate) from pair i on: the validated [lng, lat] pairs, or
\* the Error thrown at the first pair out of range
RECURSIVE validateCoordinates(_, _, _)
validateCoordinates(coordinates, i, out) ==
  IF i > Len(coordinates) THEN [ok |-> out]
  ELSE
    LET lat == coordinates[i][1]
        lng == coordinates[i][2]
    IN  IF Less(lat, Dec(-90)) \/ Less(Dec(90), lat)
        THEN Throw("Error: Invalid latitude at coordinate " \o ToString(i - 1))
        ELSE IF Less(lng, Dec(-180)) \/ Less(Dec(180), lng)
        THEN Throw("Error: Invalid longitude at coordinate " \o ToString(i - 1))
        ELSE validateCoordinates(coordinates, i + 1,
               Append(out, Arr(<<Num(lng), Num(lat)>>)))

\* parsePolyline from the decoded coordinates on
polylineFromDecoded(decoded) ==
  IF IsThrow(decoded) THEN decoded
  ELSE IF Len(decoded.coords) = 0
  THEN createErrorResult("Failed to decode polyline", ERROR_CODES.POLYLINE_ERROR,
         "Polyline string appears to be invalid or corrupted")
  ELSE
    LET validatedCoordinates == validateCoordinates(decoded.coords, 1, <<>>)
    IN  IF IsThrow(validatedCoordinates) THEN validatedCoordinates
        ELSE
          [success |-> TRUE,
           data |-> Obj([type |-> Str("Feature"),
                         geometry |-> Obj([type |-> Str("LineString"),
                                           coordinates |-> Arr(validatedCoordinates.ok)]),
                         properties |-> Obj(EmptyRecord)]),
           type |-> "Feature",
           format |-> LayerType.POLYLINE,
           geometryCount |-> 1,
           styleProperties |-> <<>>]

\* the try block of parsePolyline: a result or a thrown error
polylineTry(inp, options) ==
  LET cleanInput == trim(inp.text)
  IN  IF cleanInput = <<>>
      THEN createErrorResult("Empty polyline string", ERROR_CODES.POLYLINE_ERROR,
             "Polyline string cannot be empty")
      ELSE IF looksLikeCoordinateList(cleanInput)
      THEN createErrorResult("Input appears to be coordinate list, not encoded polyline",
             ERROR_CODES.POLYLINE_ERROR,
             "Polyline strings should be encoded, not raw coordinates")
      ELSE IF unescapeOption(options)
      THEN LET unescaped == decodeURI(cleanInput)
           IN  IF IsThrow(unescaped) THEN unescaped
               ELSE polylineFromDecoded(polylineDecode(inp, unescaped.ok))
      ELSE polylineFromDecoded(polylineDecode(inp, cleanInput))

parsePolyline(inp, options) ==
  catchAll(polylineTry(inp, IF options = NoOptions THEN [unescape |-> TRUE] ELSE options),
           "Polyline parsing failed: ", ERROR_CODES.POLYLINE_ERROR,
           "Failed to parse encoded polyline string. Please verify the polyline format.")

----------------------------------------------------------------------------
(* WKT parser *)

\* the geometry parsed from WKT wrapped without asking the validator
wktFromParsed_Unvalidated(parsed) ==
  IF IsThrow(parsed) THEN parsed
  ELSE IF ~Truthy(parsed.value)
  THEN createErrorResult("Failed to parse WKT", ERROR_CODES.WKT_ERROR,
         "WKT string appears to be invalid or unsupported")
  ELSE
    [success |-> TRUE,
     data |-> Obj([type |-> Str("Feature"), geometry |-> parsed.value,
                   properties |-> Obj(EmptyRecord)]),
     type |-> "Feature",
     format |-> LayerType.WKT,
     geometryCount |-> 1,
     styleProperties |-> <<>>]

\* validation of the geometry parsed from WKT and the result
wktFromParsed(parsed) ==
  IF IsThrow(parsed) THEN parsed
  ELSE IF ~Truthy(parsed.value)
  THEN createErrorResult("Failed to parse WKT", ERROR_CODES.WKT_ERROR,
         "WKT string appears to be invalid or unsupported")
  ELSE IF booleanValid(parsed.value) = "throws"
  THEN createErrorResult("WKT geometry validation failed: Error", ERROR_CODES.WKT_ERROR,
         "Failed to validate geometry parsed from WKT")
  ELSE IF booleanValid(parsed.value) = "invalid"
  THEN createErrorResult("Invalid geometry from WKT", ERROR_CODES.WKT_ERROR,
         "WKT parsed successfully but resulted in invalid geometry")
  ELSE
    [success |-> TRUE,
     data |-> Obj([type |-> Str("Feature"), geometry |-> parsed.value,
                   properties |-> Obj(EmptyRecord)]),
     type |-> "Feature",
     format |-> LayerType.WKT,
     geometryCount |-> 1,
     styleProperties |-> <<>>]

\* the try block of parseWKT
wktTry(inp) ==
  IF trim(inp.text) = <<>>
  THEN createErrorResult("Empty WKT string", ERROR_CODES.WKT_ERROR,
         "WKT string cannot be empty")
  ELSE wktFromParsed(wktParse(inp))

\* parseWKT whose catch reports the generic code
parseWKT_GenericCode(inp) ==
  catchAll(wktTry(inp), "WKT parsing failed: ", ERROR_CODES.PARSING_ERROR,
           "Failed to parse WKT string. Please verify the WKT format.")

parseWKT(inp) ==
  catchAll(wktTry(inp), "WKT parsing failed: ", ERROR_CODES.WKT_ERROR,
           "Failed to parse WKT string. Please verify the WKT format.")

----------------------------------------------------------------------------
(* Style-property extractor *)

\* the type-checked copies with the alternative names read first
styleRules_AlternativesFirst ==
  << <<"lineColor", "string", "stroke">>,
     <<"lineWidth", "number", "strokeWidth">>,
     <<"strokeColor", "string", "stroke">>,
     <<"strokeWeight", "number", "strokeWidth">>,
     <<"fillColor", "string", "fill">>,
     <<"fillOpacity", "number", "fillOpacity">>,
     <<"stroke", "string", "stroke">>,
     <<"stroke-width", "number", "strokeWidth">>,
     <<"stroke-opacity", "number", "strokeOpacity">>,
     <<"fill", "string", "fill">>,
     <<"fill-opacity", "number", "fillOpacity">>,
     <<"color", "string", "color">>,
     <<"weight", "number", "weight">>,
     <<"opacity", "number", "opacity">> >>

\* the type-checked copies, in source order: <<key read, typeof wanted, key written>>
styleRules ==
  << <<"stroke", "string", "stroke">>,
     <<"stroke-width", "number", "strokeWidth">>,
     <<"stroke-opacity", "number", "strokeOpacity">>,
     <<"fill", "string", "fill">>,
     <<"fill-opacity", "number", "fillOpacity">>,
     <<"color", "string", "color">>,
     <<"weight", "number", "weight">>,
     <<"opacity", "number", "opacity">>,
     <<"fillColor", "string", "fill">>,
     <<"fillOpacity", "number", "fillOpacity">>,
     <<"strokeColor", "string", "stroke">>,
     <<"strokeWeight", "number", "strokeWidth">>,
     <<"lineColor", "string", "stroke">>,
     <<"lineWidth", "number", "strokeWidth">> >>

otherStyleProps == <<"marker-color", "marker-size", "marker-symbol">>

\* style[key] = value
SetKey(style, key, value) == (key :> value) @@ style

RECURSIVE applyStyleRules(_, _, _)
applyStyleRules(properties, i, style) ==
  IF i > Len(styleRules) THEN style
  ELSE applyStyleRules(properties, i + 1,
         IF Get(properties, styleRules[i][1]).t = styleRules[i][2]
         THEN SetKey(style, styleRules[i][3], Get(properties, styleRules[i][1]))
         ELSE style)

RECURSIVE copyOtherStyleProps(_, _, _)
copyOtherStyleProps(properties, i, style) ==
  IF i > Len(otherStyleProps) THEN style
  ELSE copyOtherStyleProps(properties, i + 1,
         IF Truthy(Get(properties, otherStyleProps[i]))
         THEN SetKey(style, otherStyleProps[i], Get(properties, otherStyleProps[i]))
         ELSE style)

RECURSIVE extractStyleProperties(_)
extractStyleProperties(properties) ==
  IF ~Truthy(properties) \/ ~IsObjectLike(properties) THEN EmptyRecord
  ELSE
    LET flat   == applyStyleRules(properties, 1, EmptyRecord)
        nested == IF Truthy(Get(properties, "style")) /\ IsObjectLike(Get(properties, "style"))
                  THEN extractStyleProperties(Get(properties, "style")) @@ flat
                  ELSE flat
    IN  copyOtherStyleProps(properties, 1, nested)

\* the loop of extractAllStyleProperties over the features from i on
RECURSIVE featureStyles(_, _, _)
featureStyles(features, i, styles) ==
  IF i > Len(features) THEN [styles |-> styles]
  ELSE IF ~Truthy(features[i])
  THEN Throw("TypeError: Cannot read properties of null (reading 'properties')")
  ELSE featureStyles(features, i + 1,
         IF Truthy(Get(features[i], "properties"))
         THEN Append(styles, extractStyleProperties(Get(features[i], "properties")))
         ELSE styles)

\* [styles |-> the records] or a thrown TypeError
extractAllStyleProperties(geoJson) ==
  IF Get(geoJson, "type") = Str("FeatureCollection")
  THEN IF Get(geoJson, "features").t = "array"
       THEN featureStyles(Get(geoJson, "features").a, 1, <<>>)
       ELSE IF ~Truthy(Get(geoJson, "features"))
       THEN Throw("TypeError: Cannot read properties of undefined (reading 'length')")
       ELSE [styles |-> <<>>]
  ELSE IF Get(geoJson, "type") = Str("Feature")
  THEN featureStyles(<<geoJson>>, 1, <<>>)
  ELSE [styles |-> <<>>]

----------------------------------------------------------------------------
(* GeoJSON parser *)

geometryTypes ==
  {"Point", "LineString", "Polygon", "MultiPoint", "MultiLineString",
   "MultiPolygon", "GeometryCollection"}

validTypes == geometryTypes \cup {"Feature", "FeatureCollection"}

\* the text of a type read from an object, "unknown" for a falsy one
typeName(v) == IF v.t = "string" /\ v.s # "" THEN v.s ELSE "unknown"

getGeometryErrorSuggestion(geometryType) ==
  CASE geometryType = "Point" ->
         "Point coordinates should be [longitude, latitude] as numbers."
    [] geometryType = "LineString" ->
         "LineString coordinates should be an array of [longitude, latitude] positions."
    [] geometryType = "Polygon" ->
         "Polygon coordinates should be an array of linear ring arrays, with the first ring being the exterior boundary."
    [] geometryType = "MultiPoint" ->
         "MultiPoint coordinates should be an array of Point coordinates."
    [] geometryType = "MultiLineString" ->
         "MultiLineString coordinates should be an array of LineString coordinate arrays."
    [] geometryType = "MultiPolygon" ->
         "MultiPolygon coordinates should be an array of Polygon coordinate arrays."
    [] OTHER ->
         "Please check the GeoJSON specification for proper coordinate formatting."

\* isGeometryObject without the test for coordinates
isGeometryObject_TypeOnly(obj) ==
  /\ obj.t = "object"
  /\ "type" \in DOMAIN obj.o
  /\ obj.o.type.t = "string" /\ obj.o.type.s \in geometryTypes

isGeometryObject(obj) ==
  /\ obj.t = "object"
  /\ "type" \in DOMAIN obj.o
  /\ obj.o.type.t = "string" /\ obj.o.type.s \in geometryTypes
  /\ ("coordinates" \in DOMAIN obj.o \/ obj.o.type.s = "GeometryCollection")

\* JSON.parse of a string argument, the argument itself otherwise
parsedInput(arg) ==
  IF arg.t = "string"
  THEN IF "json" \in DOMAIN arg THEN arg.json
       ELSE Throw("SyntaxError: Unexpected token")
  ELSE [value |-> arg]

\* the try block of parsePartialGeoJSON
partialTry(arg) ==
  LET parsed == parsedInput(arg)
  IN  IF IsThrow(parsed)
      THEN createErrorResult("Invalid JSON format", ERROR_CODES.INVALID_JSON,
             "JSON parsing failed. Please check for syntax errors such as missing quotes, commas, or brackets.")
      ELSE IF isGeometryObject(parsed.value)
      THEN LET parsedData == parsed.value
               suggestion == getGeometryErrorSuggestion(parsedData.o.type.s)
           IN  IF booleanValid(parsedData) = "throws"
               THEN createErrorResult("Geometry validation failed: Error",
                      ERROR_CODES.VALIDATION_ERROR,
                      "Failed to validate " \o parsedData.o.type.s \o " geometry. " \o suggestion)
               ELSE IF booleanValid(parsedData) = "invalid"
               THEN createErrorResult("Invalid geometry: coordinates are not valid",
                      ERROR_CODES.INVALID_GEOMETRY,
                      "The " \o parsedData.o.type.s \o " geometry has invalid coordinates. " \o suggestion)
               ELSE
                 LET feature == Obj([type |-> Str("Feature"), geometry |-> parsedData,
                                     properties |-> Obj(EmptyRecord)])
                     styleProperties == extractAllStyleProperties(feature)
                 IN  IF IsThrow(styleProperties) THEN styleProperties
                     ELSE [success |-> TRUE,
                           data |-> feature,
                           type |-> "Feature",
                           format |-> LayerType.GEOJSON,
                           geometryCount |-> 1,
                           isPartialGeoJSON |-> TRUE,
                           styleProperties |-> styleProperties.styles]
      ELSE createErrorResult("Input is not a valid partial GeoJSON (standalone geometry)",
             ERROR_CODES.UNSUPPORTED_TYPE,
             "The input must be a valid geometry object (Point, LineString, Polygon, MultiPoint, MultiLineString, MultiPolygon, or GeometryCollection) with proper coordinates.")

parsePartialGeoJSON(arg) ==
  catchAll(partialTry(arg), "Partial parsing failed: ", ERROR_CODES.PARSING_ERROR,
           "An unexpected error occurred during partial GeoJSON parsing. Please check your input format.")

\* the lenient structural check of parseGeoJSON
isValidGeoJSON(data) ==
  /\ Truthy(data) /\ IsObjectLike(data)
  /\ Get(data, "type").t = "string" /\ Truthy(Get(data, "type"))
  /\ Get(data, "type").s \in validTypes
  /\ IF Get(data, "type").s = "FeatureCollection"
     THEN Get(data, "features").t = "array"
     ELSE IF Get(data, "type").s = "Feature"
     THEN /\ Truthy(Get(data, "geometry")) /\ IsObjectLike(Get(data, "geometry"))
          /\ Get(Get(data, "geometry"), "type").t = "string"
          /\ Get(Get(data, "geometry"), "type").s \in validTypes
     ELSE Get(data, "coordinates") # Undefined \/ Get(data, "geometries") # Undefined

\* validation of one Feature's geometry; index is "" for a lone Feature and
\* " 0", " 1", ... inside a FeatureCollection.  FALSE when nothing is wrong.
featureGeometryError(feature, index) ==
  IF ~Truthy(feature)
  THEN Throw("TypeError: Cannot read properties of null (reading 'geometry')")
  ELSE IF ~Truthy(Get(feature, "geometry")) THEN [ok |-> TRUE]
  ELSE
    LET geometry     == Get(feature, "geometry")
        geometryType == typeName(Get(geometry, "type"))
        suggestion   == getGeometryErrorSuggestion(geometryType)
        where        == IF index = "" THEN "The Feature contains" ELSE "Feature" \o index \o " contains"
    IN  IF booleanValid(geometry) = "throws"
        THEN createErrorResult("Feature" \o index \o " geometry validation failed: Error",
               ERROR_CODES.FEATURE_GEOMETRY_ERROR,
               "Failed to validate the " \o geometryType \o " geometry in Feature" \o index \o ". " \o suggestion)
        ELSE IF booleanValid(geometry) = "invalid"
        THEN createErrorResult("Invalid geometry in feature" \o index,
               ERROR_CODES.FEATURE_GEOMETRY_ERROR,
               where \o " a " \o geometryType \o " geometry with invalid coordinates. " \o suggestion)
        ELSE [ok |-> TRUE]

\* the features of a collection left unvalidated
collectionGeometryError_Unchecked(features, i) == [ok |-> TRUE]

\* the loop over featureCollection.features from i on (i from 1)
RECURSIVE collectionGeometryError(_, _)
collectionGeometryError(features, i) ==
  IF i > Len(features) THEN [ok |-> TRUE]
  ELSE LET r == featureGeometryError(features[i], " " \o ToString(i - 1))
       IN  IF "ok" \in DOMAIN r THEN collectionGeometryError(features, i + 1) ELSE r

\* x.length || 1
lengthOf_OrOne(x) ==
  IF x.t = "array" THEN [length |-> IF Len(x.a) = 0 THEN 1 ELSE Len(x.a)]
  ELSE Throw("TypeError: Cannot read properties of undefined (reading 'length')")

\* x.length as the loops and the count of parseGeoJSON read it
lengthOf(x) ==
  IF x.t = "array" THEN [length |-> Len(x.a)]
  ELSE IF ~Truthy(x) /\ x.t \in {"null", "undefined"}
  THEN Throw("TypeError: Cannot read properties of undefined (reading 'length')")
  ELSE [undefined |-> TRUE]

\* the success of parseGeoJSON with data copied without its properties member
geoJSONResult_WithoutProperties(data, geometryCount, styleProperties) ==
  [success |-> TRUE,
   data |-> [data EXCEPT !.o = [k \in DOMAIN data.o \ {"properties"} |-> data.o[k]]],
   format |-> LayerType.GEOJSON,
   styleProperties |-> styleProperties.styles]
  @@ (IF Get(data, "type").t = "string" /\ "s" \in DOMAIN Get(data, "type")
      THEN [type |-> Get(data, "type").s] ELSE EmptyRecord)
  @@ (IF "length" \in DOMAIN geometryCount
      THEN [geometryCount |-> geometryCount.length] ELSE EmptyRecord)

\* the success of parseGeoJSON: data is the decoded value itself; a count
\* read from a missing length is undefined and leaves no field
geoJSONResult(data, geometryCount, styleProperties) ==
  [success |-> TRUE,
   data |-> data,
   format |-> LayerType.GEOJSON,
   styleProperties |-> styleProperties.styles]
  @@ (IF Get(data, "type").t = "string" /\ "s" \in DOMAIN Get(data, "type")
      THEN [type |-> Get(data, "type").s] ELSE EmptyRecord)
  @@ (IF "length" \in DOMAIN geometryCount
      THEN [geometryCount |-> geometryCount.length] ELSE EmptyRecord)

\* parseGeoJSON from the geometry validation on: data passed a structural check
geoJSONValidated(data) ==
  LET type == Get(data, "type")
      isGeometry == type.t = "string" /\ "s" \in DOMAIN type /\ type.s \in geometryTypes
      suggestion == getGeometryErrorSuggestion(typeName(type))
      topLevel ==
        IF ~isGeometry THEN [ok |-> TRUE]
        ELSE IF booleanValid(data) = "throws"
        THEN createErrorResult("Geometry validation failed: Error",
               ERROR_CODES.VALIDATION_ERROR,
               "Failed to validate " \o type.s \o " geometry. " \o suggestion)
        ELSE IF booleanValid(data) = "invalid"
        THEN createErrorResult("Invalid geometry: coordinates are not valid",
               ERROR_CODES.INVALID_GEOMETRY,
               "The " \o type.s \o " geometry has invalid coordinates. " \o suggestion)
        ELSE [ok |-> TRUE]
      inFeature ==
        IF type = Str("Feature") THEN featureGeometryError(data, "") ELSE [ok |-> TRUE]
      features == lengthOf(Get(data, "features"))
      inCollection ==
        IF type # Str("FeatureCollection") THEN [ok |-> TRUE]
        ELSE IF IsThrow(features) THEN features
        ELSE IF "length" \in DOMAIN features
        THEN collectionGeometryError(Get(data, "features").a, 1)
        ELSE [ok |-> TRUE]
      geometries == lengthOf(Get(data, "geometries"))
      geometryCount ==
        IF type = Str("FeatureCollection") THEN features
        ELSE IF type = Str("Feature") THEN [length |-> 1]
        ELSE IF type = Str("GeometryCollection") THEN geometries
        ELSE [length |-> 1]
      styleProperties == extractAllStyleProperties(data)
  IN  IF ~Truthy(data)
      THEN Throw("TypeError: Cannot read properties of null (reading 'type')")
      ELSE IF "ok" \notin DOMAIN topLevel THEN topLevel
      ELSE IF "ok" \notin DOMAIN inFeature THEN inFeature
      ELSE IF "ok" \notin DOMAIN inCollection THEN inCollection
      ELSE IF IsThrow(geometryCount) THEN geometryCount
      ELSE IF IsThrow(styleProperties) THEN styleProperties
      ELSE geoJSONResult(data, geometryCount, styleProperties)

\* partial parsing tried before the structural checks
geoJSONTry_PartialFirst(inp) ==
  LET parsed == JSONparse(inp)
  IN  IF IsThrow(parsed)
      THEN createErrorResult("Invalid JSON format", ERROR_CODES.INVALID_JSON,
             "JSON parsing failed. Please check for syntax errors such as missing quotes, commas, or brackets.")
      ELSE
        LET partialResult == parsePartialGeoJSON(parsed.value)
        IN  IF IsThrow(partialResult) THEN partialResult
            ELSE IF partialResult.success THEN partialResult
            ELSE IF isValidGeoJSON(parsed.value) THEN geoJSONValidated(parsed.value)
            ELSE IF strictValid(inp) = "throws"
            THEN Throw("Error: validation failed")
            ELSE IF strictValid(inp) = "valid" THEN geoJSONValidated(parsed.value)
            ELSE createErrorResult("Invalid GeoJSON: errors",
                   ERROR_CODES.INVALID_GEOJSON_SCHEMA,
                   "The input does not conform to the GeoJSON specification. Common issues: missing 'type' property, invalid type value, or incorrect structure.")

\* the try block of parseGeoJSON
geoJSONTry(inp) ==
  LET parsed == JSONparse(inp)
  IN  IF IsThrow(parsed)
      THEN createErrorResult("Invalid JSON format", ERROR_CODES.INVALID_JSON,
             "JSON parsing failed. Please check for syntax errors such as missing quotes, commas, or brackets.")
      ELSE IF isValidGeoJSON(parsed.value) THEN geoJSONValidated(parsed.value)
      ELSE IF strictValid(inp) = "throws"
      THEN Throw("Error: validation failed")
      ELSE IF strictValid(inp) = "valid" THEN geoJSONValidated(parsed.value)
      ELSE
        LET partialResult == parsePartialGeoJSON(parsed.value)
        IN  IF IsThrow(partialResult) THEN partialResult
            ELSE IF partialResult.success THEN partialResult
            ELSE createErrorResult("Invalid GeoJSON: errors",
                   ERROR_CODES.INVALID_GEOJSON_SCHEMA,
                   "The input does not conform to the GeoJSON specification. Common issues: missing 'type' property, invalid type value, or incorrect structure.")

parseGeoJSON(inp) ==
  catchAll(geoJSONTry(inp), "Parsing failed: ", ERROR_CODES.PARSING_ERROR,
           "An unexpected error occurred during GeoJSON parsing. Please check your input format and try again.")

----------------------------------------------------------------------------
(* Multi-format dispatcher *)

\* only the first error is reported
join_FirstOnly(errors, sep) == IF errors = <<>> THEN "" ELSE errors[1]

\* errors.join(sep)
RECURSIVE join(_, _)
join(errors, sep) ==
  IF errors = <<>> THEN ""
  ELSE IF Len(errors) = 1 THEN errors[1]
  ELSE errors[1] \o sep \o join(Tail(errors), sep)

\* the formats array of parseMultiFormat: the names, in the order tried
formats == <<"GeoJSON", "WKT", "Polyline", "Lat/Lng List">>

\* { unescape: options?.unescape }
polylineOptions(options) ==
  IF "unescape" \in DOMAIN options THEN [unescape |-> options.unescape] ELSE EmptyRecord

\* format.parser() for the format of that name
runParser(name, cleanInput, options) ==
  CASE name = "GeoJSON" -> parseGeoJSON(cleanInput)
    [] name = "WKT" -> parseWKT(cleanInput)
    [] name = "Polyline" -> parsePolyline(cleanInput, polylineOptions(options))
    [] name = "Lat/Lng List" -> parseLatLngList(cleanInput)

\* what each format's parser makes of the input, in the order of formats
formatResults(cleanInput, options) ==
  [i \in 1..Len(formats) |-> runParser(formats[i], cleanInput, options)]

\* the formats at which the for loop of parseMultiFormat is left: a parser
\* succeeds (or an error escapes it)
loopExits(results) ==
  { i \in 1..Len(results) : IF IsThrow(results[i]) THEN TRUE ELSE results[i].success }

\* the result the for loop of parseMultiFormat ends in, or the final error,
\* for the formats of those names and those results of their parsers
loopResult(names, results) ==
  IF loopExits(results) # {}
  THEN results[CHOOSE i \in loopExits(results) : \A j \in loopExits(results) : i <= j]
  ELSE createErrorResult("Unable to parse input", ERROR_CODES.AUTO_DETECTION_ERROR,
         "Unable to parse input as any supported format. Tried: "
         \o join([i \in 1..Len(results) |-> names[i] \o ": " \o results[i].error], "; "))

\* the for loop of parseMultiFormat and the final error
tryFormats(cleanInput, options) ==
  loopResult(formats, formatResults(cleanInput, options))

\* the try block of parseMultiFormat
multiFormatTry(inp, options) ==
  IF trim(inp.text) = <<>>
  THEN createErrorResult("Empty input", ERROR_CODES.AUTO_DETECTION_ERROR,
         "Input cannot be empty")
  ELSE tryFormats([inp EXCEPT !.text = trim(inp.text)], options)

parseMultiFormat(inp, options) ==
  catchAll(multiFormatTry(inp, options), "Multi-format parsing failed: ",
           ERROR_CODES.AUTO_DETECTION_ERROR,
           "An unexpected error occurred during parsing")

----------------------------------------------------------------------------
(* Layer type detection (layerTypeDetector.ts) *)

\* the LayerDetectionResult; parseOptions is undefined and left out
detectAndParseLayer(inp) ==
  LET parseResult == parseMultiFormat(inp, NoOptions)
      layerType   == IF "format" \in DOMAIN parseResult THEN parseResult.format
                     ELSE LayerType.GEOJSON
  IN  [layerType |-> layerType,
       layerOptions |-> IF layerType = LayerType.POLYLINE THEN [unescape |-> TRUE]
                        ELSE EmptyRecord,
       parseResult |-> parseResult]

----------------------------------------------------------------------------
(* The second copy of the parser module (geohelpertool/src/utils):          *)
(* parseGeoJSON, parsePartialGeoJSON and parseWKT behave as above;          *)
(* parseLatLngList, parsePolyline and parseMultiFormat differ.              *)

\* length of the match of /-?\d+\.?\d*/ at position i, 0 if none
geohelpertool_numberMatchAt(s, i) ==
  LET p1 == IF CharAt(s, i) = "-" THEN i + 1 ELSE i
      d1 == DigitRun(s, p1)
      p2 == p1 + d1
      f  == IF CharAt(s, p2) = "." THEN 1 + DigitRun(s, p2 + 1) ELSE 0
  IN  IF d1 = 0 THEN 0 ELSE p2 + f - i

RECURSIVE geohelpertool_matchNumbers(_, _)
geohelpertool_matchNumbers(s, i) ==
  IF i > Len(s) THEN <<>>
  ELSE LET n == geohelpertool_numberMatchAt(s, i)
       IN  IF n = 0 THEN geohelpertool_matchNumbers(s, i + 1)
           ELSE <<SubSeq(s, i, i + n - 1)>> \o geohelpertool_matchNumbers(s, i + n)

geohelpertool_parseLatLngList(inp) ==
  catchAll(latLngFromNumbers(trim(inp.text), geohelpertool_matchNumbers(trim(inp.text), 1)),
           "Lat/lng list parsing failed: ", ERROR_CODES.LATLNG_LIST_ERROR,
           "Failed to parse lat/lng list. Please verify the format.")

\* s.replace(/\\(.)/g, '$1') from position i on
RECURSIVE unescapeBackslashes(_, _)
unescapeBackslashes(s, i) ==
  IF i > Len(s) THEN <<>>
  ELSE IF s[i] = "\\" /\ i < Len(s) /\ s[i + 1] # "\n"
  THEN <<s[i + 1]>> \o unescapeBackslashes(s, i + 2)
  ELSE <<s[i]>> \o unescapeBackslashes(s, i + 1)

geohelpertool_polylineTry(inp, options) ==
  LET cleanInput == trim(inp.text)
  IN  IF cleanInput = <<>>
      THEN createErrorResult("Empty polyline string", ERROR_CODES.POLYLINE_ERROR,
             "Polyline string cannot be empty")
      ELSE polylineFromDecoded(polylineDecode(inp,
             IF unescapeOption(options) THEN unescapeBackslashes(cleanInput, 1)
             ELSE cleanInput))

geohelpertool_parsePolyline(inp, options) ==
  catchAll(geohelpertool_polylineTry(inp,
             IF options = NoOptions THEN [unescape |-> TRUE] ELSE options),
           "Polyline parsing failed: ", ERROR_CODES.POLYLINE_ERROR,
           "Failed to parse encoded polyline string. Please verify the polyline format.")

geohelpertool_formats == <<"GeoJSON", "Lat/Lng List", "WKT", "Polyline">>

geohelpertool_runParser(name, cleanInput, options) ==
  CASE name = "GeoJSON" -> parseGeoJSON(cleanInput)
    [] name = "Lat/Lng List" -> geohelpertool_parseLatLngList(cleanInput)
    [] name = "WKT" -> parseWKT(cleanInput)
    [] name = "Polyline" -> geohelpertool_parsePolyline(cleanInput, polylineOptions(options))

geohelpertool_formatResults(cleanInput, options) ==
  [i \in 1..Len(geohelpertool_formats) |->
     geohelpertool_runParser(geohelpertool_formats[i], cleanInput, options)]

geohelpertool_tryFormats(cleanInput, options) ==
  loopResult(geohelpertool_formats, geohelpertool_formatResults(cleanInput, options))

geohelpertool_parseMultiFormat(inp, options) ==
  catchAll(IF trim(inp.text) = <<>>
           THEN createErrorResult("Empty input", ERROR_CODES.AUTO_DETECTION_ERROR,
                  "Input cannot be empty")
           ELSE geohelpertool_tryFormats([inp EXCEPT !.text = trim(inp.text)], options),
           "Multi-format parsing failed: ", ERROR_CODES.AUTO_DETECTION_ERROR,
           "An unexpected error occurred during parsing")

----------------------------------------------------------------------------
(* Inputs: the text handed to a parser and what each library makes of it *)

\* the characters of a string literal of at most five characters
Chars(str) ==
  CASE str = " " -> <<" ">>
    [] str = "0,0," -> <<"0", ",", "0", ",">>
    [] str = "0 0" -> <<"0", " ", "0">>
    [] str = "90," -> <<"9", "0", ",">>
    [] str = "91," -> <<"9", "1", ",">>
    [] str = "180" -> <<"1", "8", "0">>
    [] str = "181" -> <<"1", "8", "1">>
    [] str = "18" -> <<"1", "8">>
    [] OTHER -> <<str>>

\* the fragments texts are built from
ListPieces == {"0,0,", "90,", "91,", "180", "181", "-", ".", "e", "5", " ", "x"}

GenPieces == {" ", "0,0,", "0 0", "91,", "18", "%", "P"}

RECURSIVE Flatten(_)
Flatten(ps) == IF ps = <<>> THEN <<>> ELSE Chars(Head(ps)) \o Flatten(Tail(ps))

\* every text made of at most n fragments
TextsOf(pieces, n) ==
  { Flatten(ps) : ps \in UNION { [1..k -> pieces] : k \in 0..n } }

ListTexts == TextsOf(ListPieces, MaxPieces)

GenTexts == TextsOf(GenPieces, MaxGenPieces)

\* a text JSON.parse and wkt.parse turn down and polyline.decode is given as it is
PlainText == <<"P">>

\* a geometry value together with turf's verdict on it
Geometry(o, bv) == [t |-> "object", o |-> o, bv |-> bv]

Verdicts == {"valid", "invalid", "throws"}

PointCoordinates == Arr(<<Num(Dec(1)), Num(Dec(2))>>)

Points == { Geometry([type |-> Str("Point"), coordinates |-> PointCoordinates], bv) :
            bv \in Verdicts }

ValidPoint == Geometry([type |-> Str("Point"), coordinates |-> PointCoordinates], "valid")

\* geometry collections: with members, empty, without geometries, with
\* coordinates instead of geometries
GeometryCollections ==
  { Geometry([type |-> Str("GeometryCollection"), geometries |-> Arr(ms)], bv) :
      ms \in {<<>>, <<ValidPoint>>, <<ValidPoint, ValidPoint>>}, bv \in Verdicts }
  \cup { Geometry([type |-> Str("GeometryCollection")], bv) : bv \in Verdicts }
  \cup { Geometry([type |-> Str("GeometryCollection"), coordinates |-> Arr(<<>>)], "valid") }

Geometries ==
  Points \cup GeometryCollections
  \cup { Obj([type |-> Str("Point")]), Obj([type |-> Str("Circle"), coordinates |-> Arr(<<>>)]) }

PropertyValues ==
  { Null, Obj(EmptyRecord),
    Obj([stroke |-> Str("#f00"), name |-> Str("a")]),
    Obj([weight |-> Num(Dec(2)), style |-> Obj([color |-> Str("#00f")])]) }

Feature(geometry, properties) ==
  Obj([type |-> Str("Feature"), geometry |-> geometry, properties |-> properties])

Features ==
  { Feature(g, p) : g \in Points, p \in PropertyValues }
  \cup { Feature(Null, Obj(EmptyRecord)), Feature(Obj([type |-> Str("Circle")]), Null),
         Obj([type |-> Str("Feature")]) }

\* what a FeatureCollection may hold
CollectionMembers ==
  { Feature(g, Obj([stroke |-> Str("#f00"), name |-> Str("a")])) : g \in Points }
  \cup { Feature(ValidPoint, Null), Feature(Null, Obj(EmptyRecord)), Null }

FeatureCollection(features) ==
  Obj([type |-> Str("FeatureCollection"), features |-> features])

FeatureCollections ==
  { FeatureCollection(Arr(fs)) :
      fs \in UNION { [1..k -> CollectionMembers] : k \in 0..MaxFeatures } }
  \cup { Obj([type |-> Str("FeatureCollection")]), FeatureCollection(Null) }

Scalars == { Null, Num(Dec(5)), Num(Zero(FALSE)), Str("a"), Arr(<<>>), Obj(EmptyRecord) }

JsonValues == Scalars \cup Geometries \cup Features \cup FeatureCollections

SyntaxError == Throw("SyntaxError: Unexpected token")

\* the [lat, lng] pairs polyline.decode may produce
DecodedPairs ==
  { <<Dec(0), Dec(0)>>, <<Dec(90), Dec(180)>>, <<Dec(-90), Dec(-180)>>,
    <<Dec(91), Dec(0)>>, <<Dec(-91), Dec(0)>>, <<Dec(0), Dec(181)>>,
    <<Dec(0), Dec(-181)>> }

DecodeOutcomes ==
  { Throw("Error: decode") }
  \cup { [coords |-> cs] : cs \in UNION { [1..k -> DecodedPairs] : k \in 0..MaxDecoded } }

DecodedLine == [coords |-> << <<Dec(90), Dec(180)>>, <<Dec(0), Dec(0)>> >>]

WktOutcomes ==
  { Throw("Error: wkt"), [value |-> Null] } \cup { [value |-> g] : g \in Points }

\* a text of digits, white space, commas, dots and minus signs only, once
\* trimmed: no JSON document but a number, no WKT, no encoded polyline
CoordLike(text) ==
  /\ trim(text) # <<>>
  /\ \A i \in 1..Len(text) :
       text[i] \in DigitChars \cup {" ", "\t", "\n", ",", ".", "-"}

\* the verdicts geojson-validation can give on a decoded value the lenient
\* check turned down: of these it accepts at most a Feature that has its
\* members, with a null geometry
StrictFor(json) ==
  IF IsThrow(json) \/ isValidGeoJSON(json.value) THEN {"invalid"}
  ELSE IF /\ Get(json.value, "type") = Str("Feature")
          /\ {"geometry", "properties"} \subseteq DOMAIN json.value.o
          /\ Get(json.value, "geometry") = Null
  THEN Verdicts
  ELSE {"invalid", "throws"}

\* what JSON.parse can make of a text: white space is a syntax error and
\* digits and punctuation give at best a number
JsonFor(text) ==
  IF trim(text) = <<>> THEN {SyntaxError}
  ELSE IF CoordLike(text) THEN {SyntaxError, [value |-> Num(Dec(5))]}
  ELSE {SyntaxError, [value |-> Num(Dec(5))],
        [value |-> Feature(ValidPoint, Obj(EmptyRecord))]}

\* what wkt.parse can make of a text: a geometry needs a keyword
WktFor(text) ==
  {Throw("Error: wkt"), [value |-> Null]}
  \cup (IF trim(text) = <<>> \/ CoordLike(text) THEN {} ELSE {[value |-> ValidPoint]})

\* unescaping, by decodeURI or by removing backslashes, leaves the trimmed
\* text as it is, or fails
SameUnescaped(text) ==
  LET u == decodeURI(trim(text))
  IN  /\ IsThrow(u) \/ u.ok = trim(text)
      /\ unescapeBackslashes(trim(text), 1) = trim(text)

Input(text, json, strict, wkt, decRaw, decAlt) ==
  [text |-> text, json |-> json, strict |-> strict, wkt |-> wkt,
   decRaw |-> decRaw, decAlt |-> decAlt]

\* a JSON document of any decoded value
JsonInputs ==
  { Input(PlainText, j, st, [value |-> Null], Throw("Error: decode"), Throw("Error: decode")) :
      j \in { [value |-> v] : v \in JsonValues }, st \in Verdicts }

\* a WKT text of any parse outcome
WktInputs ==
  { Input(PlainText, SyntaxError, "invalid", w, Throw("Error: decode"), Throw("Error: decode")) :
      w \in WktOutcomes }

\* an encoded polyline of any decoding, escaped or not
PolylineInputs ==
  { Input(t, SyntaxError, "invalid", [value |-> Null], d, d) :
      t \in {PlainText}, d \in DecodeOutcomes }
  \cup { Input(t, SyntaxError, "invalid", [value |-> Null], d1, d2) :
           t \in {<<"%", "1", "8">>, <<"\\", "P">>},
           d1 \in {Throw("Error: decode"), DecodedLine}, d2 \in DecodeOutcomes }

\* any text, with one failing and one succeeding answer of each library
MixedInputs ==
  { Input(t, j, "invalid", w, d1, d2) :
      t \in GenTexts, j \in {SyntaxError} \cup { [value |-> v] : v \in {Num(Dec(5)), Feature(ValidPoint, Obj(EmptyRecord))} },
      w \in {Throw("Error: wkt"), [value |-> Null], [value |-> ValidPoint]},
      d1 \in {Throw("Error: decode"), DecodedLine},
      d2 \in {Throw("Error: decode"), DecodedLine} }

\* the inputs the libraries' behaviour allows
Possible(inp) ==
  /\ inp.json \in JsonFor(inp.text) \/ (inp.text = PlainText /\ ~IsThrow(inp.json))
  /\ inp.strict \in StrictFor(inp.json)
  /\ inp.wkt \in WktFor(inp.text) \/ inp.text = PlainText
  /\ SameUnescaped(inp.text) => inp.decAlt = inp.decRaw

GenInputs ==
  { inp \in JsonInputs \cup WktInputs \cup PolylineInputs \cup MixedInputs : Possible(inp) }

\* coordinate-like and nearly coordinate-like texts
ListInputs ==
  { inp \in { Input(t, j, "invalid", [value |-> Null], Throw("Error: decode"), Throw("Error: decode")) :
                t \in ListTexts, j \in {SyntaxError, [value |-> Num(Dec(5))]} } :
      Possible(inp) }

----------------------------------------------------------------------------
(* The state machine: a caller holds an input and calls the exported parsers *)

NoCall == [fn |-> "none"]

NoResult == [none |-> TRUE]

\* the parsers, the style extractor and the clipper have no map, no layer
\* manager and no layer state
NoMapNoLayers ==
  /\ map = NoResult
  /\ layerGroups = NoResult
  /\ state = NoResult
  /\ rendered = NoResult

Call(fn, options) == [fn |-> fn, options |-> options]

PolylineOptionValues == {NoOptions, EmptyRecord, [unescape |-> TRUE], [unescape |-> FALSE]}

MultiFormatOptionValues == {NoOptions, [unescape |-> TRUE], [unescape |-> FALSE]}

Init ==
  /\ input \in GenInputs
  /\ called = NoCall
  /\ result = NoResult
  /\ threw = FALSE
  /\ NoMapNoLayers

InitList ==
  /\ input \in ListInputs
  /\ called = NoCall
  /\ result = NoResult
  /\ threw = FALSE
  /\ NoMapNoLayers

\* One call is made on each input (the parsers keep no state between calls).
\* threw records whether the try block of the called function ended in its catch
CallParseGeoJSON ==
  /\ called = NoCall
  /\ called' = Call("parseGeoJSON", NoOptions)
  /\ result' = parseGeoJSON(input)
  /\ threw' = IsThrow(geoJSONTry(input))
  /\ UNCHANGED <<input, map, layerGroups, state, rendered>>

\* parsePartialGeoJSON given the text
CallParsePartialGeoJSONText ==
  /\ called = NoCall
  /\ called' = Call("parsePartialGeoJSON", [arg |-> "string"])
  /\ result' = parsePartialGeoJSON(TextValue(input))
  /\ threw' = IsThrow(partialTry(TextValue(input)))
  /\ UNCHANGED <<input, map, layerGroups, state, rendered>>

\* parsePartialGeoJSON given an already decoded value
CallParsePartialGeoJSONObject ==
  /\ ~IsThrow(input.json)
  /\ input.json.value.t # "string"
  /\ called = NoCall
  /\ called' = Call("parsePartialGeoJSON", [arg |-> "object"])
  /\ result' = parsePartialGeoJSON(input.json.value)
  /\ threw' = IsThrow(partialTry(input.json.value))
  /\ UNCHANGED <<input, map, layerGroups, state, rendered>>

CallParseWKT ==
  /\ called = NoCall
  /\ called' = Call("parseWKT", NoOptions)
  /\ result' = parseWKT(input)
  /\ threw' = IsThrow(wktTry(input))
  /\ UNCHANGED <<input, map, layerGroups, state, rendered>>

CallParsePolyline ==
  \E options \in PolylineOptionValues :
    /\ called = NoCall
  /\ called' = Call("parsePolyline", options)
    /\ result' = parsePolyline(input, options)
    /\ threw' = IsThrow(polylineTry(input,
                  IF options = NoOptions THEN [unescape |-> TRUE] ELSE options))
    /\ UNCHANGED <<input, map, layerGroups, state, rendered>>

CallParseLatLngList ==
  /\ called = NoCall
  /\ called' = Call("parseLatLngList", NoOptions)
  /\ result' = parseLatLngList(input)
  /\ threw' = FALSE
  /\ UNCHANGED <<input, map, layerGroups, state, rendered>>

CallParseMultiFormat ==
  \E options \in MultiFormatOptionValues :
    /\ called = NoCall
  /\ called' = Call("parseMultiFormat", options)
    /\ result' = parseMultiFormat(input, options)
    /\ threw' = IsThrow(multiFormatTry(input, options))
    /\ UNCHANGED <<input, map, layerGroups, state, rendered>>

\* the dispatcher of the second copy of the module
CallSecondParseMultiFormat ==
  \E options \in MultiFormatOptionValues :
    /\ called = NoCall
  /\ called' = Call("geohelpertool/parseMultiFormat", options)
    /\ result' = geohelpertool_parseMultiFormat(input, options)
    /\ threw' = FALSE
    /\ UNCHANGED <<input, map, layerGroups, state, rendered>>

CallDetectAndParseLayer ==
  /\ called = NoCall
  /\ called' = Call("detectAndParseLayer", NoOptions)
  /\ result' = detectAndParseLayer(input)
  /\ threw' = IsThrow(multiFormatTry(input, NoOptions))
  /\ UNCHANGED <<input, map, layerGroups, state, rendered>>

Next ==
  \/ CallParseGeoJSON
  \/ CallParsePartialGeoJSONText
  \/ CallParsePartialGeoJSONObject
  \/ CallParseWKT
  \/ CallParsePolyline
  \/ CallParseLatLngList
  \/ CallParseMultiFormat
  \/ CallSecondParseMultiFormat
  \/ CallDetectAndParseLayer

Spec == Init /\ [][Next]_vars

NextList ==
  \/ CallParseLatLngList
  \/ CallParsePolyline
  \/ CallParseMultiFormat

SpecList == InitList /\ [][NextList]_vars

----------------------------------------------------------------------------
(* The style extractor on its own: a caller holds a properties value *)

\* the function f without what it maps to undefined: the members of an object
Defined(f) == [k \in { k \in DOMAIN f : f[k] # Undefined } |-> f[k]]

\* the objects with each of those keys left out or given one of those values
ObjectsOver(keys, values) ==
  { Obj(Defined(f)) : f \in [keys -> values \cup {Undefined}] }

\* values of the right and of the wrong type for a colour and for a width
StyleValues == { Str("#f00"), Str("#00f"), Num(Dec(2)), Num(Dec(3)), Null }

\* present values that are falsy, and truthy ones
MarkerValues == { Str("star"), Str(""), Num(Zero(FALSE)), Null }

\* what a style member may be
NestedValues ==
  { Null, Str("bold"), Arr(<<>>), Obj(EmptyRecord),
    Obj([stroke |-> Str("#0f0")]),
    Obj([lineColor |-> Str("#0f0"), weight |-> Num(Dec(7))]),
    Obj(("marker-color" :> Str("#0f0")) @@ [fill |-> Num(Dec(1))]),
    Obj([style |-> Obj([stroke |-> Str("#0f0"), color |-> Str("#0f0")]),
         color |-> Str("#fff")]) }

\* objects with a style member beside top-level keys it can collide with
NestedStyleInputs ==
  { Obj(Defined(("style" :> n) @@ ("stroke" :> a) @@ ("lineColor" :> b)
                @@ ("marker-color" :> c) @@ ("weight" :> d))) :
      n \in NestedValues,
      a \in {Undefined, Str("#f00")}, b \in {Undefined, Str("#00f"), Num(Dec(2))},
      c \in {Undefined, Str("#f00"), Str("")}, d \in {Undefined, Num(Dec(3))} }

StyleInputs ==
  { Null, Undefined, Str("stroke"), Num(Dec(2)), Arr(<<>>) }
  \cup ObjectsOver({"stroke", "strokeColor", "lineColor"}, StyleValues)
  \cup ObjectsOver({"stroke-width", "strokeWeight", "lineWidth"}, StyleValues)
  \cup ObjectsOver({"fill", "fillColor"}, StyleValues)
  \cup ObjectsOver({"fill-opacity", "fillOpacity"}, StyleValues)
  \cup ObjectsOver({"stroke-opacity", "color"}, StyleValues)
  \cup ObjectsOver({"weight", "opacity"}, StyleValues)
  \cup ObjectsOver({"marker-color", "marker-size", "marker-symbol"}, MarkerValues)
  \cup NestedStyleInputs

InitStyle ==
  /\ input \in StyleInputs
  /\ called = NoCall
  /\ result = NoResult
  /\ threw = FALSE
  /\ NoMapNoLayers

CallExtractStyleProperties ==
  /\ called = NoCall
  /\ called' = Call("extractStyleProperties", NoOptions)
  /\ result' = extractStyleProperties(input)
  /\ threw' = FALSE
  /\ UNCHANGED <<input, map, layerGroups, state, rendered>>

NextStyle == CallExtractStyleProperties

SpecStyle == InitStyle /\ [][NextStyle]_vars

----------------------------------------------------------------------------
(* Properties *)

\* the six exported parsers of the module
Parsers ==
  {"parseGeoJSON", "parsePartialGeoJSON", "parseWKT", "parsePolyline",
   "parseLatLngList", "parseMultiFormat"}

\* a parser of the module has returned
Returned == called.fn \in Parsers

\* the input as the dispatcher hands it to the parsers
Cleaned == [input EXCEPT !.text = trim(input.text)]

\* the order of the formats as documented
ClaimedOrder == <<"GeoJSON", "WKT", "Polyline", "Lat/Lng List">>

\* the result of the first success among results, in their order: none is
\* demanded when every parser failed
FirstSuccessReturned(results) ==
  \A i \in 1..Len(results) :
    (results[i].success /\ \A j \in 1..(i - 1) : ~results[j].success)
      => result = results[i]

\* C1 (module utils/geoJsonParser): parseMultiFormat returns, unchanged, the
\* result of the first of GeoJSON, WKT, Polyline, Lat/Lng List, in this
\* order, whose parser accepts the trimmed input.
C1_FixedOrder ==
  (called.fn = "parseMultiFormat" /\ trim(input.text) # <<>>) =>
    FirstSuccessReturned(
      [i \in 1..4 |-> runParser(ClaimedOrder[i], Cleaned, called.options)])

\* C1, for both copies of parseMultiFormat in the repository: each returns the
\* result of the first of GeoJSON, WKT, Polyline, Lat/Lng List, in this
\* order, whose parser (of the same copy) accepts the trimmed input.
C1_FixedOrderInBothCopies ==
  /\ C1_FixedOrder
  /\ (called.fn = "geohelpertool/parseMultiFormat" /\ trim(input.text) # <<>>) =>
       FirstSuccessReturned(
         [i \in 1..4 |-> geohelpertool_runParser(ClaimedOrder[i], Cleaned, called.options)])

\* C2: a returned ParseResult has data exactly when success is true, and
\* error, errorCode and errorDetails, all three, exactly when it is false.
C2_SuccessIffData ==
  Returned =>
    /\ result.success \in BOOLEAN
    /\ result.success <=> "data" \in DOMAIN result
    /\ result.success <=> {"error", "errorCode", "errorDetails"} \cap DOMAIN result = {}
    /\ ~result.success => {"error", "errorCode", "errorDetails"} \subseteq DOMAIN result

\* a failure produced by the catch of a parser
C2_FailureReturned ==
  /\ Returned /\ threw
  /\ ~result.success
  /\ result.errorDetails # ""

\* an exception was raised while the called parser ran: the try block ended in
\* the catch, or a library threw into one of the inner catches
InternalException ==
  \/ threw
  \/ /\ called.fn \in {"parseGeoJSON", "parsePartialGeoJSON"}
     /\ IsThrow(input.json) \/ (input.json.value \in Points /\ input.json.value.bv = "throws")
  \/ /\ called.fn = "parseWKT" /\ trim(input.text) # <<>>
     /\ IsThrow(input.wkt) \/ (input.wkt.value \in Points /\ input.wkt.value.bv = "throws")

\* C3: every parser returns a ParseResult whatever the input and whatever the
\* libraries throw; an exception raised inside becomes a result with success
\* false.
C3_Total ==
  Returned =>
    /\ ~IsThrow(result)
    /\ "success" \in DOMAIN result
    /\ InternalException => result.success = FALSE

\* the strict validator throws inside parseGeoJSON and the catch answers
C3_ExceptionCaught ==
  /\ called.fn = "parseGeoJSON"
  /\ threw
  /\ input.strict = "throws"
  /\ result.success = FALSE
  /\ result.errorCode = ERROR_CODES.PARSING_ERROR

\* the four parsers, as the dispatcher calls them, all fail on the input
AllFourFail ==
  /\ ~parseGeoJSON(Cleaned).success
  /\ ~parseWKT(Cleaned).success
  /\ ~parsePolyline(Cleaned, polylineOptions(called.options)).success
  /\ ~parseLatLngList(Cleaned).success

\* C4: when the four parsers all fail on a non-empty input, parseMultiFormat
\* fails with AUTO_DETECTION_ERROR and its errorDetails lists, in the order
\* tried, GeoJSON, WKT, Polyline and Lat/Lng List, each once, with that
\* parser's own error message.
C4_AllErrorsListed ==
  (called.fn = "parseMultiFormat" /\ trim(input.text) # <<>> /\ AllFourFail) =>
    /\ result.success = FALSE
    /\ result.errorCode = ERROR_CODES.AUTO_DETECTION_ERROR
    /\ result.errorDetails =
         "Unable to parse input as any supported format. Tried: "
         \o "GeoJSON: " \o parseGeoJSON(Cleaned).error
         \o "; WKT: " \o parseWKT(Cleaned).error
         \o "; Polyline: "
         \o parsePolyline(Cleaned, polylineOptions(called.options)).error
         \o "; Lat/Lng List: " \o parseLatLngList(Cleaned).error

\* the dispatcher has failed on a non-empty text that holds numbers
C4_AllFailed ==
  /\ called.fn = "parseMultiFormat"
  /\ trim(input.text) # <<>>
  /\ AllFourFail
  /\ parseLatLngList(Cleaned).error = "Odd number of coordinates"
  /\ result.errorCode = ERROR_CODES.AUTO_DETECTION_ERROR

\* C5, as stated: a successful result has geometryCount at least 1.
C5_CountAtLeastOne ==
  (Returned /\ result.success) =>
    "geometryCount" \in DOMAIN result /\ result.geometryCount >= 1

\* the count the data of a successful result stands for
CountOf(data) ==
  IF Get(data, "type") = Str("FeatureCollection") THEN Len(Get(data, "features").a)
  ELSE IF Get(data, "type") = Str("GeometryCollection") THEN Len(Get(data, "geometries").a)
  ELSE 1

\* C5, amended: a successful result has a geometryCount that is the number
\* of features of a FeatureCollection, the number of members of a
\* GeometryCollection and 1 otherwise; it is never negative, and it is 0 only
\* for a collection parseGeoJSON accepted empty.
C5_CountIsLength ==
  (Returned /\ result.success) =>
    /\ "geometryCount" \in DOMAIN result
    /\ result.geometryCount >= 0
    /\ result.geometryCount = CountOf(result.data)
    /\ result.geometryCount = 0 =>
         /\ called.fn \in {"parseGeoJSON", "parseMultiFormat"}
         /\ result.format = LayerType.GEOJSON
         /\ Get(result.data, "type").s \in {"FeatureCollection", "GeometryCollection"}

\* parseGeoJSON succeeds on a FeatureCollection without features
C5_EmptyCollectionAccepted ==
  /\ called.fn = "parseGeoJSON"
  /\ result.success
  /\ result.geometryCount = 0
  /\ Get(result.data, "features") = Arr(<<>>)

FailureCodeOf ==
  [parsePolyline |-> ERROR_CODES.POLYLINE_ERROR,
   parseWKT |-> ERROR_CODES.WKT_ERROR,
   parseLatLngList |-> ERROR_CODES.LATLNG_LIST_ERROR,
   parseMultiFormat |-> ERROR_CODES.AUTO_DETECTION_ERROR]

\* C6: parsePolyline, parseWKT, parseLatLngList and parseMultiFormat fail
\* only with their own error code, they reject an input that is empty once
\* trimmed, and parseGeoJSON of the empty string fails with INVALID_JSON.
C6_OwnErrorCode ==
  /\ (called.fn \in DOMAIN FailureCodeOf /\ ~result.success) =>
       result.errorCode = FailureCodeOf[called.fn]
  /\ (called.fn \in DOMAIN FailureCodeOf /\ trim(input.text) = <<>>) =>
       ~result.success
  /\ (called.fn = "parseGeoJSON" /\ input.text = <<>>) =>
       ~result.success /\ result.errorCode = ERROR_CODES.INVALID_JSON

\* an inner parser's catch has answered and the dispatcher reports its own code
C6_InnerCodeHidden ==
  /\ called.fn = "parseMultiFormat"
  /\ IsThrow(input.wkt)
  /\ IsThrow(polylineTry(Cleaned, polylineOptions(called.options)))
  /\ ~result.success
  /\ result.errorCode = ERROR_CODES.AUTO_DETECTION_ERROR

\* the numerals parseLatLngList finds in the input, and their values
Numbers == matchNumbers(trim(input.text), 1)

Values == [k \in 1..Len(Numbers) |-> parseFloat(Numbers[k])]

PairCount == Len(Numbers) \div 2

LatInRange(v) == ~Less(v, Dec(-90)) /\ ~Less(Dec(90), v)

LngInRange(v) == ~Less(v, Dec(-180)) /\ ~Less(Dec(180), v)

\* the j-th pair (from 1) is a latitude and a longitude in range
PairInRange(j) == LatInRange(Values[2 * j - 1]) /\ LngInRange(Values[2 * j])

\* the numerals form pairs, at least one, all in range
ValidPairs ==
  /\ Len(Numbers) >= 2
  /\ Len(Numbers) % 2 = 0
  /\ \A j \in 1..PairCount : PairInRange(j)

\* C7: from 2k numbers in range parseLatLngList makes a FeatureCollection of
\* k Point features in input order; feature i has coordinates
\* [number 2i, number 2i-1] and properties.index = i; geometryCount is k and
\* styleProperties is empty.
C7_PointsInInputOrder ==
  (called.fn = "parseLatLngList" /\ ValidPairs) =>
    /\ result.success
    /\ result.type = "FeatureCollection"
    /\ result.format = LayerType.COORDINATES
    /\ Get(result.data, "type") = Str("FeatureCollection")
    /\ Len(Get(result.data, "features").a) = PairCount
    /\ \A i \in 1..PairCount :
         Get(result.data, "features").a[i] =
           Obj([type |-> Str("Feature"),
                geometry |-> Obj([type |-> Str("Point"),
                                  coordinates |->
                                    Arr(<<Num(Values[2 * i]), Num(Values[2 * i - 1])>>)]),
                properties |-> Obj([index |-> Num(Dec(i))])])
    /\ result.geometryCount = PairCount
    /\ result.styleProperties = <<>>

\* two pairs, 0,0 and 90,180, have become two points
C7_TwoPoints ==
  /\ called.fn = "parseLatLngList"
  /\ result.success
  /\ result.geometryCount = 2
  /\ Get(Get(Get(result.data, "features").a[2], "geometry"), "coordinates") =
       Arr(<<Num(Dec(180)), Num(Dec(90))>>)

\* the error parseLatLngList owes the input, "" when it owes none
ExpectedListError ==
  IF trim(input.text) = <<>> THEN "Empty lat/lng list"
  ELSE IF Len(Numbers) = 0 THEN "No valid numbers found"
  ELSE IF Len(Numbers) % 2 # 0 THEN "Odd number of coordinates"
  ELSE IF \A j \in 1..PairCount : PairInRange(j) THEN ""
  ELSE LET first == CHOOSE j \in 1..PairCount :
                      ~PairInRange(j) /\ \A k \in 1..(j - 1) : PairInRange(k)
       IN  IF ~LatInRange(Values[2 * first - 1]) THEN "Invalid latitude value"
           ELSE "Invalid longitude value"

\* C8: parseLatLngList checks empty input, then no numbers, then an odd
\* count, then each pair in input order, latitude in [-90, 90] and longitude
\* in [-180, 180], bounds included; the first violation ends the parse with
\* LATLNG_LIST_ERROR and no data.
C8_FirstViolationEnds ==
  called.fn = "parseLatLngList" =>
    IF ExpectedListError = "" THEN result.success
    ELSE /\ ~result.success
         /\ result.error = ExpectedListError
         /\ result.errorCode = ERROR_CODES.LATLNG_LIST_ERROR
         /\ "data" \notin DOMAIN result

\* a valid pair followed by a pair out of range gives no collection
C8_LaterPairOutOfRange ==
  /\ called.fn = "parseLatLngList"
  /\ Len(Numbers) = 4
  /\ PairInRange(1) /\ ~PairInRange(2)
  /\ ~result.success
  /\ "data" \notin DOMAIN result

\* C9: parsePolyline turns down, with POLYLINE_ERROR and before it unescapes
\* or decodes anything, every input that is only digits, white space,
\* commas, periods and hyphens once trimmed; parseMultiFormat then returns
\* format COORDINATES when the numbers form valid pairs and
\* AUTO_DETECTION_ERROR otherwise, never POLYLINE.
C9_CoordinateListNotPolyline ==
  /\ (called.fn = "parsePolyline" /\ CoordLike(input.text)) =>
       /\ ~result.success
       /\ result.errorCode = ERROR_CODES.POLYLINE_ERROR
       /\ result.error = "Input appears to be coordinate list, not encoded polyline"
  /\ (called.fn = "parseMultiFormat" /\ CoordLike(input.text)) =>
       IF ValidPairs
       THEN result.success /\ result.format = LayerType.COORDINATES
       ELSE ~result.success /\ result.errorCode = ERROR_CODES.AUTO_DETECTION_ERROR

\* a list of two pairs the decoder would have taken for an encoded polyline
C9_CoordinatesNotDecoded ==
  /\ called.fn = "parseMultiFormat"
  /\ CoordLike(input.text)
  /\ \E i \in 1..Len(trim(input.text)) : trim(input.text)[i] = " "
  /\ input.decRaw = DecodedLine
  /\ result.success
  /\ result.format = LayerType.COORDINATES

\* a decoding the parse cannot accept: thrown, empty, or with a pair out of range
Undecodable(decoded) ==
  \/ IsThrow(decoded)
  \/ Len(decoded.coords) = 0
  \/ \E i \in 1..Len(decoded.coords) :
       ~LatInRange(decoded.coords[i][1]) \/ ~LngInRange(decoded.coords[i][2])

\* the LineString feature of the decoded (lat, lng) pairs
LineOf(decoded) ==
  Obj([type |-> Str("Feature"),
       geometry |->
         Obj([type |-> Str("LineString"),
              coordinates |->
                Arr([i \in 1..Len(decoded.coords) |->
                       Arr(<<Num(decoded.coords[i][2]), Num(decoded.coords[i][1])>>)])]),
       properties |-> Obj(EmptyRecord)])

\* C10: when parsePolyline succeeds, data is one Feature with empty
\* properties and a non-empty LineString whose i-th coordinate is [lng, lat]
\* of the i-th decoded pair, all in range, geometryCount is 1 and
\* styleProperties is empty; a decoded pair out of range, or an empty decode
\* result, fails the parse with POLYLINE_ERROR.
C10_LineStringOfDecodedPairs ==
  called.fn = "parsePolyline" =>
    /\ result.success =>
         /\ \E decoded \in {input.decRaw, input.decAlt} :
              ~Undecodable(decoded) /\ result.data = LineOf(decoded)
         /\ result.type = "Feature"
         /\ result.format = LayerType.POLYLINE
         /\ result.geometryCount = 1
         /\ result.styleProperties = <<>>
    /\ (Undecodable(input.decRaw) /\ Undecodable(input.decAlt)) =>
         ~result.success /\ result.errorCode = ERROR_CODES.POLYLINE_ERROR

\* the pairs (90, 180), (0, 0) have become the line [180, 90], [0, 0]
C10_LineDecoded ==
  /\ called.fn = "parsePolyline"
  /\ result.success
  /\ Get(Get(result.data, "geometry"), "coordinates") =
       Arr(<<Arr(<<Num(Dec(180)), Num(Dec(90))>>), Arr(<<Num(Dec(0)), Num(Dec(0))>>)>>)

\* the result of the dispatcher had its Polyline step called parsePolyline
\* with the default options
WithDefaultUnescape ==
  loopResult(formats,
    [i \in 1..Len(formats) |->
       IF formats[i] = "Polyline" THEN parsePolyline(Cleaned, NoOptions)
       ELSE runParser(formats[i], Cleaned, called.options)])

\* C11: the unescape option defaults to true wherever the caller leaves it
\* out: parsePolyline(input) is parsePolyline(input, {unescape: true});
\* parseMultiFormat(input) and detectAndParseLayer(input) return what they
\* would return with a Polyline step that unescapes; and the
\* layerOptions.unescape = true reported for a POLYLINE layer is the setting
\* that layer's data was parsed with.
C11_UnescapeDefaultsToTrue ==
  /\ (called.fn = "parsePolyline" /\ called.options = NoOptions) =>
       result = parsePolyline(input, [unescape |-> TRUE])
  /\ (called.fn = "parseMultiFormat" /\ called.options = NoOptions
        /\ trim(input.text) # <<>>) =>
       result = WithDefaultUnescape
  /\ (called.fn = "detectAndParseLayer" /\ trim(input.text) # <<>>) =>
       /\ result.parseResult = WithDefaultUnescape
       /\ result.layerType = LayerType.POLYLINE =>
            result.parseResult = parsePolyline(Cleaned, result.layerOptions)

\* the text of the input holds a backslash
HasBackslash == \E i \in 1..Len(input.text) : input.text[i] = "\\"

\* the input whose text is that of input without its backslash escapes, for
\* the same codec
Unescaped ==
  [input EXCEPT !.text = unescapeBackslashes(trim(input.text), 1),
                !.decRaw = input.decAlt, !.decAlt = input.decRaw]

\* C12: with unescape enabled parsePolyline removes backslash escapes before
\* decoding: on an encoded polyline with a backslash put before one of its
\* characters it succeeds with the coordinates parsePolyline gives, with
\* unescape disabled, on the polyline without the backslash.
C12_BackslashesRemoved ==
  (/\ called.fn = "parsePolyline" /\ called.options = [unescape |-> TRUE]
   /\ HasBackslash
   /\ parsePolyline(Unescaped, [unescape |-> FALSE]).success) =>
    /\ result.success
    /\ result.data = parsePolyline(Unescaped, [unescape |-> FALSE]).data

\* the WKT codec returned a geometry and the validator accepts it
WktAccepted ==
  /\ trim(input.text) # <<>>
  /\ ~IsThrow(input.wkt)
  /\ input.wkt.value # Null
  /\ booleanValid(input.wkt.value) = "valid"

\* C13: parseWKT succeeds only when the WKT codec returns a geometry and the
\* validator accepts it; a success is exactly one Feature of that geometry
\* with empty properties, type Feature, format WKT, geometryCount 1, empty
\* styleProperties and no isPartialGeoJSON; a null codec result, a codec
\* exception, a rejected geometry and a validator exception each fail with
\* WKT_ERROR.
C13_WktValidatedFeature ==
  called.fn = "parseWKT" =>
    /\ result.success <=> WktAccepted
    /\ result.success =>
         result = [success |-> TRUE,
                   data |-> Feature(input.wkt.value, Obj(EmptyRecord)),
                   type |-> "Feature",
                   format |-> LayerType.WKT,
                   geometryCount |-> 1,
                   styleProperties |-> <<>>]
    /\ ~result.success => result.errorCode = ERROR_CODES.WKT_ERROR

\* the codec returned a Point and the validator turned it down
C13_ParsedGeometryRejected ==
  /\ called.fn = "parseWKT"
  /\ ~IsThrow(input.wkt)
  /\ Get(input.wkt.value, "type") = Str("Point")
  /\ booleanValid(input.wkt.value) = "invalid"
  /\ ~result.success
  /\ result.error = "Invalid geometry from WKT"

\* the value JSON.parse decoded from the input
Decoded == input.json.value

\* parseGeoJSON was given a JSON document
GeoJSONParsed == called.fn = "parseGeoJSON" /\ ~IsThrow(input.json)

\* the decoded value passed the lenient or the strict structural check, so
\* that parseGeoJSON itself validates its geometries
StructureAccepted == isValidGeoJSON(Decoded) \/ strictValid(input) = "valid"

\* the decoded value is an object of a geometry type
TopLevelGeometry ==
  Get(Decoded, "type").t = "string" /\ Get(Decoded, "type").s \in geometryTypes

\* a feature whose geometry the validator does not accept
Unaccepted(f) ==
  /\ f # Null
  /\ Truthy(Get(f, "geometry"))
  /\ booleanValid(Get(f, "geometry")) # "valid"

\* the members of the decoded FeatureCollection
Members == Get(Decoded, "features").a

\* the indices (from 1) at which the loop over the features can end
Stops == { i \in 1..Len(Members) : Members[i] = Null \/ Unaccepted(Members[i]) }

\* the geometry type of the i-th member, as the messages name it
MemberType(i) == typeName(Get(Get(Members[i], "geometry"), "type"))

\* C14 for the geometries inside Features: the validator is run on a
\* Feature's geometry and on the geometry of each feature of a
\* FeatureCollection in index order; the first one found invalid ends the
\* parse with FEATURE_GEOMETRY_ERROR, the error naming the lowest index of an
\* invalid feature and errorDetails carrying the hint of that geometry type;
\* a success means the validator accepted every geometry.
FeatureGeometriesValidated ==
  /\ (GeoJSONParsed /\ StructureAccepted /\ Get(Decoded, "type") = Str("Feature")
        /\ Unaccepted(Decoded)) =>
       /\ ~result.success
       /\ result.errorCode = ERROR_CODES.FEATURE_GEOMETRY_ERROR
       /\ booleanValid(Get(Decoded, "geometry")) = "invalid" =>
            /\ result.error = "Invalid geometry in feature"
            /\ result.errorDetails =
                 "The Feature contains a "
                 \o typeName(Get(Get(Decoded, "geometry"), "type"))
                 \o " geometry with invalid coordinates. "
                 \o getGeometryErrorSuggestion(
                      typeName(Get(Get(Decoded, "geometry"), "type")))
  /\ (GeoJSONParsed /\ Get(Decoded, "type") = Str("FeatureCollection")
        /\ Get(Decoded, "features").t = "array") =>
       \A i \in Stops :
         ((\A j \in Stops : i <= j) /\ Members[i] # Null) =>
           /\ ~result.success
           /\ result.errorCode = ERROR_CODES.FEATURE_GEOMETRY_ERROR
           /\ booleanValid(Get(Members[i], "geometry")) = "invalid" =>
                /\ result.error = "Invalid geometry in feature " \o ToString(i - 1)
                /\ result.errorDetails =
                     "Feature " \o ToString(i - 1) \o " contains a " \o MemberType(i)
                     \o " geometry with invalid coordinates. "
                     \o getGeometryErrorSuggestion(MemberType(i))
  /\ (called.fn = "parseGeoJSON" /\ result.success) =>
       /\ TopLevelGeometry => booleanValid(Decoded) = "valid"
       /\ Get(result.data, "type") = Str("Feature") => ~Unaccepted(result.data)
       /\ Get(result.data, "type") = Str("FeatureCollection") =>
            \A i \in 1..Len(Get(result.data, "features").a) :
              ~Unaccepted(Get(result.data, "features").a[i])

\* the result of a bare top-level geometry the validator found invalid
InvalidGeometryResult ==
  createErrorResult("Invalid geometry: coordinates are not valid",
    ERROR_CODES.INVALID_GEOMETRY,
    "The " \o Get(Decoded, "type").s \o " geometry has invalid coordinates. "
    \o getGeometryErrorSuggestion(Get(Decoded, "type").s))

FeaturesOf(data) ==
  IF Get(data, "type") = Str("Feature") THEN <<data>>
  ELSE IF Get(data, "type") = Str("FeatureCollection") /\ Get(data, "features").t = "array"
  THEN Get(data, "features").a
  ELSE <<>>

\* C15: on every successful parseGeoJSON styleProperties holds one record per
\* feature of data, the i-th being extractStyleProperties of the i-th
\* feature's properties, also when a feature has null or missing properties.
C15_OneStylePerFeature ==
  (called.fn = "parseGeoJSON" /\ result.success) =>
    /\ Len(result.styleProperties) = Len(FeaturesOf(result.data))
    /\ \A i \in 1..Len(FeaturesOf(result.data)) :
         i <= Len(result.styleProperties) =>
           result.styleProperties[i] =
             extractStyleProperties(Get(FeaturesOf(result.data)[i], "properties"))

\* the types of the Point, LineString and Polygon families
SingleGeometryTypes == geometryTypes \ {"GeometryCollection"}

\* a Feature wrapping one geometry of a recognized type
WrapsGeometry(f) ==
  /\ Get(f, "type") = Str("Feature")
  /\ Get(Get(f, "geometry"), "type").t = "string"
  /\ Get(Get(f, "geometry"), "type").s \in SingleGeometryTypes

\* C16: whenever a parser returns success, data is a Feature wrapping a
\* single Point/LineString/Polygon-family geometry or a FeatureCollection
\* whose members are all such Features; a bare geometry is never returned
\* unwrapped.
C16_DataIsWrapped ==
  (Returned /\ result.success) =>
    \/ WrapsGeometry(result.data)
    \/ /\ Get(result.data, "type") = Str("FeatureCollection")
       /\ Get(result.data, "features").t = "array"
       /\ \A i \in 1..Len(Get(result.data, "features").a) :
            WrapsGeometry(Get(result.data, "features").a[i])

\* the shape of data, in the words of ParseResult.type
ShapeOf(data) ==
  IF Get(data, "type") \in {Str("FeatureCollection"), Str("Feature")}
  THEN Get(data, "type").s
  ELSE "Geometry"

\* C17: on every successful result type is one of FeatureCollection, Feature
\* and Geometry and echoes the shape of data; it is never the name of a
\* geometry type.
C17_TypeEchoesShape ==
  (Returned /\ result.success) =>
    /\ "type" \in DOMAIN result
    /\ result.type \in {"FeatureCollection", "Feature", "Geometry"}
    /\ result.type = ShapeOf(result.data)

\* a bare geometry object: of a geometry type, with its coordinates (a
\* GeometryCollection has none)
BareGeometry(v) ==
  /\ v.t = "object"
  /\ Get(v, "type") \in { Str(t) : t \in geometryTypes }
  /\ Get(v, "type") = Str("GeometryCollection") \/ "coordinates" \in DOMAIN v.o

\* the result of the bare-geometry path for the decoded geometry, with those
\* style records
PartialResult(styles) ==
  [success |-> TRUE,
   data |-> Feature(Decoded, Obj(EmptyRecord)),
   type |-> "Feature",
   format |-> LayerType.GEOJSON,
   geometryCount |-> 1,
   isPartialGeoJSON |-> TRUE,
   styleProperties |-> styles]

\* parsePartialGeoJSON wraps an accepted bare geometry into PartialResult(styles)
\* and turns down what is no geometry; isPartialGeoJSON is set on no other result
PartialContract(styles) ==
  /\ (called.fn = "parsePartialGeoJSON" /\ ~IsThrow(input.json)) =>
       /\ (BareGeometry(Decoded) /\ booleanValid(Decoded) = "valid") =>
            result = PartialResult(styles)
       /\ ~BareGeometry(Decoded) =>
            ~result.success /\ result.errorCode = ERROR_CODES.UNSUPPORTED_TYPE
  /\ (Returned /\ "isPartialGeoJSON" \in DOMAIN result) =>
       /\ called.fn \in {"parsePartialGeoJSON", "parseGeoJSON", "parseMultiFormat"}
       /\ ~IsThrow(input.json)
       /\ BareGeometry(Decoded)
       /\ result = PartialResult(styles)

RECURSIVE Reserialized(_)
Reserialized(v) ==
  CASE v.t = "object" ->
         [v EXCEPT !.o = [k \in { k \in DOMAIN v.o : v.o[k] # Undefined } |->
                            Reserialized(v.o[k])]]
    [] v.t = "array" ->
         [v EXCEPT !.a = [i \in DOMAIN v.a |->
                            IF v.a[i] = Undefined THEN Null ELSE Reserialized(v.a[i])]]
    [] v.t = "number" -> IF v.v.digs = <<>> THEN Num(Zero(FALSE)) ELSE v
    [] OTHER -> v

\* the input that is the re-serialized data of the result
Reparsed == [input EXCEPT !.json = [value |-> Reserialized(result.data)]]

\* C19: for every Feature or FeatureCollection parseGeoJSON accepts, data
\* is equal to the decoded input, no field added, dropped or changed and the
\* features in their order, and parsing the re-serialized data gives an equal
\* result.
C19_PassthroughLossless ==
  (/\ GeoJSONParsed /\ result.success
   /\ Get(Decoded, "type") \in {Str("Feature"), Str("FeatureCollection")}) =>
    /\ result.data = Decoded
    /\ parseGeoJSON(Reparsed) = result

\* a collection of two different features has been accepted
C19_TwoFeaturesKept ==
  /\ GeoJSONParsed /\ result.success
  /\ Get(Decoded, "type") = Str("FeatureCollection")
  /\ Len(Members) = 2
  /\ Members[1] # Members[2]
  /\ Get(Members[1], "properties") # Null
  /\ Get(result.data, "features").a = Members

\* each output key with the type its value must have and the keys it is
\* read from, the one that prevails first
StylePrecedence ==
  { <<"stroke", "string", <<"lineColor", "strokeColor", "stroke">> >>,
    <<"strokeWidth", "number", <<"lineWidth", "strokeWeight", "stroke-width">> >>,
    <<"strokeOpacity", "number", <<"stroke-opacity">> >>,
    <<"fill", "string", <<"fillColor", "fill">> >>,
    <<"fillOpacity", "number", <<"fillOpacity", "fill-opacity">> >>,
    <<"color", "string", <<"color">> >>,
    <<"weight", "number", <<"weight">> >>,
    <<"opacity", "number", <<"opacity">> >> }

\* the places of the keys of a rule at which p holds a value of the wanted type
Typed(p, rule) == { i \in 1..Len(rule[3]) : Get(p, rule[3][i]).t = rule[2] }

\* the value a rule gives its output key
Prevailing(p, rule) ==
  Get(p, rule[3][CHOOSE i \in Typed(p, rule) : \A j \in Typed(p, rule) : i <= j])

\* the record of the top-level keys of p
FlatStyle(p) ==
  [k \in { rule[1] : rule \in { r \in StylePrecedence : Typed(p, r) # {} } } |->
     Prevailing(p, CHOOSE r \in StylePrecedence : r[1] = k)]

MarkerKeys == {"marker-color", "marker-size", "marker-symbol"}

\* the marker keys copied: each one present, or each one whose value is truthy
MarkerStyle(p, whenPresent) ==
  [k \in { m \in MarkerKeys : IF whenPresent THEN Get(p, m) # Undefined
                                ELSE Truthy(Get(p, m)) } |-> Get(p, k)]

\* the record the rules of C20 build from p
RECURSIVE ExpectedStyle(_, _)
ExpectedStyle(p, whenPresent) ==
  IF ~Truthy(p) \/ p.t \notin {"object", "array"} THEN EmptyRecord
  ELSE MarkerStyle(p, whenPresent)
       @@ (IF Get(p, "style").t \in {"object", "array"}
           THEN ExpectedStyle(Get(p, "style"), whenPresent)
           ELSE EmptyRecord)
       @@ FlatStyle(p)

\* C20: extractStyleProperties(p) is the record of the simplestyle keys, the
\* Mapbox/Leaflet keys, the alternative names, the nested style object and the
\* marker keys, a later rule overwriting an earlier one (lineColor over
\* strokeColor over stroke, fillColor over fill, fillOpacity over
\* fill-opacity, lineWidth over strokeWeight over stroke-width, nested style
\* over top level); a recognized key is copied only when its value is a
\* string (colours) or a number (widths, opacities); the marker keys are
\* copied verbatim whenever present; null, undefined and non-object input
\* give the empty record.
C20_StyleRulesInOrder ==
  called.fn = "extractStyleProperties" => result = ExpectedStyle(input, TRUE)

\* C20, amended: as above, but a marker key is copied only when its value is
\* truthy: one that is present with null, false, 0 or the empty string is
\* left out.
C20_MarkersCopiedWhenTruthy ==
  called.fn = "extractStyleProperties" => result = ExpectedStyle(input, FALSE)

\* stroke, strokeColor and lineColor were all given and lineColor prevailed
C20_LineColorPrevails ==
  /\ called.fn = "extractStyleProperties"
  /\ input.t = "object"
  /\ Get(input, "stroke") = Str("#f00")
  /\ Get(input, "strokeColor") = Str("#f00")
  /\ Get(input, "lineColor") = Str("#00f")
  /\ result = [stroke |-> Str("#00f")]

(***************************************************************************)
(* Line-progress clipper: clipLinesByProgress, lineClipping.ts 1-123.      *)
(*                                                                         *)
(* A feature is a record with type, properties, geometry, an id when it    *)
(* has one, and ref: which object it is (0 for an object built during  *)
(* the call).  The coordinates of a line are its positions together with   *)
(* what the geometry library answers for them: km, the kilometres          *)
(* length(feature) returns or what it throws, and cut, what lineSliceAlong *)
(* does:                                                                   *)
(* "throws", or builds a Feature that is "bare" (empty properties, no id)  *)
(* or carries the "same" properties.  The sub-line the library returns is  *)
(* kept as the request it answers: Sliced(points, startDist, stopDist).    *)
(***************************************************************************)
LineCoordinates(points, km, cut) == [points |-> points, km |-> km, cut |-> cut]

Sliced(points, startDist, stopDist) ==
  [sliceOf |-> points, startDist |-> startDist, stopDist |-> stopDist]

\* length(feature, { units: 'kilometers' })
Km(n) == [km |-> n]

Unmeasurable == Throw("coord must be GeoJSON Point or an Array of numbers")

turfLength(feature) == feature.geometry.coordinates.km

\* lineSliceAlong(feature, 0, targetLength, { units: 'kilometers' })
lineSliceAlong(feature, startDist, stopDist) ==
  IF feature.geometry.coordinates.cut = "throws"
  THEN Throw("coordinates must be an array of two or more positions")
  ELSE [type |-> "Feature",
        ref |-> 0,
        properties |-> IF feature.geometry.coordinates.cut = "same"
                       THEN feature.properties ELSE EmptyRecord,
        geometry |-> [type |-> "LineString",
                      coordinates |-> Sliced(feature.geometry.coordinates.points,
                                             startDist, stopDist)]]

\* { ...feature, geometry }
withGeometry(feature, geometry) ==
  [feature EXCEPT !.geometry = geometry, !.ref = 0]

\* try { return lineSliceAlong(...) } catch { return feature }
sliceOrOriginal(feature, sliced) ==
  IF IsThrow(sliced) THEN feature ELSE sliced

\* (totalLength * progressPercent) / 100
targetLength(totalLength, progressPercent) ==
  (totalLength * progressPercent) \div 100

\* clipLineString from the length measurement on (lines 86-95)
sliceLineString(feature, progressPercent, totalLength) ==
  IF IsThrow(totalLength)
  THEN totalLength
  ELSE sliceOrOriginal(feature,
         lineSliceAlong(feature, 0, targetLength(totalLength.km, progressPercent)))

clipLineString_WholeLine(feature, progressPercent) == feature

clipLineString(feature, progressPercent) ==
  IF progressPercent = 0
  THEN IF Len(feature.geometry.coordinates.points) < 2
       THEN feature
       ELSE withGeometry(feature,
              [type |-> "LineString",
               coordinates |-> [points |-> <<feature.geometry.coordinates.points[1],
                                             feature.geometry.coordinates.points[1]>>]])
  ELSE sliceLineString(feature, progressPercent, turfLength(feature))

\* feature.geometry.coordinates.map(coords => ({ type: 'Feature', ... }))
lineStrings(feature) ==
  [i \in DOMAIN feature.geometry.coordinates |->
     [type |-> "Feature",
      ref |-> 0,
      properties |-> feature.properties,
      geometry |-> [type |-> "LineString",
                    coordinates |-> feature.geometry.coordinates[i]]]]

\* lineStrings.map(line => clipLineString(line, progressPercent))
clippedLines(feature, progressPercent) ==
  [i \in DOMAIN feature.geometry.coordinates |->
     clipLineString(lineStrings(feature)[i], progressPercent)]

\* the first exception a map over a sequence raises, if any
firstThrow(seq) ==
  IF \E i \in DOMAIN seq : IsThrow(seq[i])
  THEN seq[CHOOSE i \in DOMAIN seq :
             IsThrow(seq[i]) /\ \A j \in 1..(i - 1) : ~IsThrow(seq[j])]
  ELSE NoResult

\* clippedLines.map(line => line.geometry.coordinates)
componentCoordinates(clipped) ==
  [i \in DOMAIN clipped |-> clipped[i].geometry.coordinates]

multiLineFrom(feature, clipped) ==
  IF firstThrow(clipped) # NoResult
  THEN firstThrow(clipped)
  ELSE withGeometry(feature,
         [type |-> "MultiLineString",
          coordinates |-> componentCoordinates(clipped)])

clipMultiLineString(feature, progressPercent) ==
  multiLineFrom(feature, clippedLines(feature, progressPercent))

\* the callback of featureCollection.features.map (lines 34-51)
clipFeature(feature, progressPercent) ==
  IF feature.geometry = Null
  THEN feature
  ELSE IF feature.geometry.type \notin {"LineString", "MultiLineString"}
       THEN feature
       ELSE IF feature.geometry.type = "LineString"
            THEN clipLineString(feature, progressPercent)
            ELSE clipMultiLineString(feature, progressPercent)

clippedFeatures(featureCollection, progressPercent) ==
  [i \in DOMAIN featureCollection.features |->
     clipFeature(featureCollection.features[i], progressPercent)]

\* the try block of clipLinesByProgress and its catch (lines 33-65)
clipTry(clipped) ==
  IF firstThrow(clipped) # NoResult
  THEN [success |-> FALSE, error |-> firstThrow(clipped).thrown]
  ELSE [success |-> TRUE,
        data |-> [type |-> "FeatureCollection", ref |-> 0, features |-> clipped]]

clipLinesByProgress(featureCollection, progressPercent) ==
  IF progressPercent < 0 \/ progressPercent > 100
  THEN [success |-> FALSE,
        error |-> "Progress must be between 0 and 100"]
  ELSE IF progressPercent = 100
       THEN [success |-> TRUE, data |-> featureCollection]
       ELSE clipTry(clippedFeatures(featureCollection, progressPercent))


(***************************************************************************)
(* The clipper's inputs: a feature collection and a percentage.            *)
(***************************************************************************)
\* most features in a collection given to the clipper
MaxClipFeatures == 2

\* components of a MultiLineString given to the clipper
MaxComponents == 2

ProgressValues == {-1, 0, 50, 100, 101}

\* lines as the coordinates of a LineString feature
ClipLines ==
  {LineCoordinates(<<>>, Km(0), "bare"),
   LineCoordinates(<<"a">>, Km(0), "throws")}
  \cup {LineCoordinates(<<"a", "b">>, km, cut) :
          km \in {Unmeasurable, Km(200)}, cut \in {"throws", "bare"}}
  \cup {LineCoordinates(<<"a", "b">>, Km(200), "same"),
        LineCoordinates(<<"a", "b", "c">>, Km(400), "bare"),
        LineCoordinates(<<"a", "a">>, Km(0), "throws")}

\* lines as the components of a MultiLineString feature
ComponentLines ==
  {LineCoordinates(<<"a", "b">>, Km(200), "bare"),
   LineCoordinates(<<"b", "c">>, Km(400), "throws"),
   LineCoordinates(<<"c", "d">>, Unmeasurable, "bare")}

ClipProperties == [name |-> "route"]

lineFeature(geometry) ==
  [type |-> "Feature", id |-> "r1", properties |-> ClipProperties,
   geometry |-> geometry]

OtherFeatures ==
  {[type |-> "Feature", properties |-> ClipProperties,
    geometry |-> [type |-> "Point", coordinates |-> <<"a">>]],
   [type |-> "Feature", properties |-> ClipProperties, geometry |-> Null]}

LineStringFeatures ==
  {lineFeature([type |-> "LineString", coordinates |-> c]) : c \in ClipLines}

MultiLineStringFeatures ==
  {lineFeature([type |-> "MultiLineString", coordinates |-> cs]) :
     cs \in [1..MaxComponents -> ComponentLines]}

ClipFeatures == OtherFeatures \cup LineStringFeatures \cup MultiLineStringFeatures

\* the i-th feature of the collection is object i + 1, the collection object 1
withRef(object, ref) ==
  [k \in DOMAIN object \cup {"ref"} |-> IF k = "ref" THEN ref ELSE object[k]]

ClipCollections ==
  {withRef([type |-> "FeatureCollection",
            features |-> [i \in DOMAIN fs |-> withRef(fs[i], i + 1)]], 1) :
     fs \in UNION {[1..n -> ClipFeatures] : n \in 0..MaxClipFeatures}}

ClipInputs ==
  {[featureCollection |-> fc, progressPercent |-> p] :
     fc \in ClipCollections, p \in ProgressValues}

InitClip ==
  /\ input \in ClipInputs
  /\ called = NoCall
  /\ result = NoResult
  /\ threw = FALSE
  /\ NoMapNoLayers

CallClipLinesByProgress ==
  /\ called = NoCall
  /\ called' = Call("clipLinesByProgress", input)
  /\ result' = clipLinesByProgress(input.featureCollection, input.progressPercent)
  /\ threw' = FALSE
  /\ UNCHANGED <<input, map, layerGroups, state, rendered>>

NextClip == CallClipLinesByProgress

SpecClip == InitClip /\ [][NextClip]_vars

(***************************************************************************)
(* Properties of the line-progress clipper, checked under SpecClip.        *)
(***************************************************************************)
Clipped == called.fn = "clipLinesByProgress"

Given == input.featureCollection

Percent == input.progressPercent

\* the lines of a feature: its coordinates, or its components
LinesOf(feature) ==
  IF feature.geometry = Null THEN {}
  ELSE IF feature.geometry.type = "LineString"
       THEN {feature.geometry.coordinates}
       ELSE IF feature.geometry.type = "MultiLineString"
            THEN {feature.geometry.coordinates[i] :
                    i \in DOMAIN feature.geometry.coordinates}
            ELSE {}

\* some line of the collection makes length(feature) throw
HasUnmeasurableLine ==
  \E i \in DOMAIN Given.features :
    \E line \in LinesOf(Given.features[i]) : IsThrow(line.km)

\* C21: clipLinesByProgress fails, with an error and no data, exactly when
\* the percentage is below 0 or above 100; for every percentage in [0, 100]
\* and every collection it succeeds with data, a line that cannot be
\* measured or sliced coming back as the original feature.
C21_FailsOnlyOutOfRange ==
  Clipped =>
    IF Percent < 0 \/ Percent > 100
    THEN /\ result.success = FALSE
         /\ DOMAIN result = {"success", "error"}
    ELSE /\ result.success = TRUE
         /\ DOMAIN result = {"success", "data"}
         /\ \A i \in DOMAIN Given.features :
              LET feature == Given.features[i] IN
              (/\ Percent \in 1..99
               /\ feature.geometry # Null
               /\ feature.geometry.type = "LineString"
               /\ \/ IsThrow(feature.geometry.coordinates.km)
                  \/ feature.geometry.coordinates.cut = "throws")
              => result.data.features[i] = feature

IsLineString(feature) ==
  feature.geometry # Null /\ feature.geometry.type = "LineString"

\* C22: at 100 percent the data is the very collection given; at 0 percent
\* every LineString of two or more points becomes a LineString of two
\* points, both the original first coordinate, and a LineString of fewer
\* than two points comes back unchanged.
C22_EndsOfTheRange ==
  Clipped =>
    /\ Percent = 100 => result.success /\ result.data = Given
    /\ Percent = 0 =>
         /\ result.success
         /\ \A i \in DOMAIN Given.features :
              IsLineString(Given.features[i]) =>
                IF Len(Given.features[i].geometry.coordinates.points) >= 2
                THEN result.data.features[i].geometry =
                       [type |-> "LineString",
                        coordinates |->
                          [points |->
                             <<Given.features[i].geometry.coordinates.points[1],
                               Given.features[i].geometry.coordinates.points[1]>>]]
                ELSE result.data.features[i] = Given.features[i]

\* at 0 percent, a collection of a three-point line and a one-point line
C22_LongAndShortLineAtZero ==
  /\ Clipped
  /\ Percent = 0
  /\ Len(Given.features) = 2
  /\ IsLineString(Given.features[1])
  /\ Len(Given.features[1].geometry.coordinates.points) = 3
  /\ IsLineString(Given.features[2])
  /\ Len(Given.features[2].geometry.coordinates.points) = 1
  /\ result.data.features[1].geometry.coordinates.points = <<"a", "a">>

IsMultiLineString(feature) ==
  feature.geometry # Null /\ feature.geometry.type = "MultiLineString"

\* a line cut to percent of its own length: the degenerate line at 0, the
\* sub-line up to that share of its kilometres, or the line itself when it
\* cannot be measured or sliced
CutToShare(line, percent) ==
  IF percent = 0
  THEN IF Len(line.points) >= 2
       THEN [points |-> <<line.points[1], line.points[1]>>]
       ELSE line
  ELSE IF IsThrow(line.km) \/ line.cut = "throws"
       THEN line
       ELSE Sliced(line.points, 0, (line.km.km * percent) \div 100)

ComponentsCut(given, data, percent) ==
  /\ IsMultiLineString(data)
  /\ Len(data.geometry.coordinates) = Len(given.geometry.coordinates)
  /\ \A j \in DOMAIN given.geometry.coordinates :
       data.geometry.coordinates[j] = CutToShare(given.geometry.coordinates[j], percent)

\* C23: for a MultiLineString feature and a percentage in [0, 100), every
\* component is clipped on its own to that share of its own length, and the
\* result is a MultiLineString of as many components in the same order.
C23_ComponentsClippedOnTheirOwn ==
  (Clipped /\ Percent >= 0 /\ Percent < 100) =>
    \A i \in DOMAIN Given.features :
      IsMultiLineString(Given.features[i]) =>
        /\ result.success
        /\ ComponentsCut(Given.features[i], result.data.features[i], Percent)

\* the same, for the collections all of whose lines can be measured
C23_MeasurableComponentsClipped ==
  (Clipped /\ Percent >= 0 /\ Percent < 100 /\ ~HasUnmeasurableLine) =>
    \A i \in DOMAIN Given.features :
      IsMultiLineString(Given.features[i]) =>
        /\ result.success
        /\ ComponentsCut(Given.features[i], result.data.features[i], Percent)

IsLine(feature) == IsLineString(feature) \/ IsMultiLineString(feature)

\* a collection built during the call, with a feature for each feature given,
\* in the same order: features that are no line are the very objects given
NewCollectionOf(given, data) ==
  /\ data.type = "FeatureCollection"
  /\ data.ref = 0
  /\ Len(data.features) = Len(given.features)
  /\ \A i \in DOMAIN given.features :
       IF IsLine(given.features[i])
       THEN /\ IsLine(data.features[i])
            /\ data.features[i].geometry.type = given.features[i].geometry.type
       ELSE data.features[i] = given.features[i]

\* C24: the call leaves its input untouched; for a percentage in [0, 100) the
\* result is a newly built collection of as many features in the same order,
\* features without geometry or with a geometry that is no line being passed
\* through unchanged.
C24_InputUntouched ==
  Clipped =>
    /\ input = called.options
    /\ (Percent >= 0 /\ Percent < 100) =>
         /\ result.success
         /\ NewCollectionOf(Given, result.data)

\* the same, for the collections all of whose lines can be measured
C24_MeasurableInputUntouched ==
  (Clipped /\ ~HasUnmeasurableLine) =>
    /\ input = called.options
    /\ (Percent >= 0 /\ Percent < 100) =>
         /\ result.success
         /\ NewCollectionOf(Given, result.data)

\* C27: clipping changes only the coordinates: for every percentage in
\* [0, 100] every LineString or MultiLineString feature comes back with the
\* same properties, the same id and the same geometry type, whether it was
\* made degenerate, sliced, or returned as it was.
C27_OnlyCoordinatesChange ==
  (Clipped /\ Percent >= 0 /\ Percent <= 100) =>
    /\ result.success
    /\ \A i \in DOMAIN Given.features :
         IsLine(Given.features[i]) =>
           /\ result.data.features[i].properties = Given.features[i].properties
           /\ "id" \in DOMAIN result.data.features[i]
           /\ result.data.features[i].id = Given.features[i].id
           /\ result.data.features[i].geometry.type = Given.features[i].geometry.type

\* a LineString that was measured and sliced
SlicedLineString(feature) ==
  /\ IsLineString(feature)
  /\ ~IsThrow(feature.geometry.coordinates.km)
  /\ feature.geometry.coordinates.cut # "throws"

\* the same, leaving out the collections with a line that cannot be measured
\* and the LineString features the library sliced
C27_RebuiltFeaturesKeepTheRest ==
  (Clipped /\ Percent >= 0 /\ Percent <= 100 /\ ~HasUnmeasurableLine) =>
    /\ result.success
    /\ \A i \in DOMAIN Given.features :
         (/\ IsLine(Given.features[i])
          /\ ~(Percent \in 1..99 /\ SlicedLineString(Given.features[i]))) =>
           /\ result.data.features[i].properties = Given.features[i].properties
           /\ "id" \in DOMAIN result.data.features[i]
           /\ result.data.features[i].id = Given.features[i].id
           /\ result.data.features[i].geometry.type = Given.features[i].geometry.type

\* a sliced LineString feature comes back without its id
C27_SlicedFeatureLosesId ==
  (Clipped /\ Percent \in 1..99 /\ ~HasUnmeasurableLine) =>
    \A i \in DOMAIN Given.features :
      SlicedLineString(Given.features[i]) =>
        "id" \notin DOMAIN result.data.features[i]

(***************************************************************************)
(* The order of the checks of parseGeoJSON, checked under Spec.            *)
(***************************************************************************)
ErrorCodeIs(code) == "errorCode" \in DOMAIN result /\ result.errorCode = code

IsPartialResult ==
  "isPartialGeoJSON" \in DOMAIN result /\ result.isPartialGeoJSON = TRUE

\* what parseGeoJSON answers once the geometry validation is entered
FromGeometryValidation ==
  catchAll(geoJSONValidated(Decoded), "Parsing failed: ", ERROR_CODES.PARSING_ERROR,
           "An unexpected error occurred during GeoJSON parsing. Please check your input format and try again.")

\* C25: parseGeoJSON checks in a fixed order.  A text that is no JSON gives
\* INVALID_JSON before any structural check; INVALID_GEOJSON_SCHEMA is given
\* only when the lenient check, the strict validator and partial parsing
\* have all rejected the value; partial parsing is tried only after both
\* structural checks failed; a value either structural check accepts always
\* goes on to the geometry validation.
C25_ChecksInOrder ==
  called.fn = "parseGeoJSON" =>
    /\ IsThrow(input.json) => ErrorCodeIs(ERROR_CODES.INVALID_JSON)
    /\ ~IsThrow(input.json) =>
         /\ ~ErrorCodeIs(ERROR_CODES.INVALID_JSON)
         /\ ErrorCodeIs(ERROR_CODES.INVALID_GEOJSON_SCHEMA) =>
              /\ ~isValidGeoJSON(Decoded)
              /\ strictValid(input) = "invalid"
              /\ ~parsePartialGeoJSON(Decoded).success
         /\ IsPartialResult =>
              /\ ~isValidGeoJSON(Decoded)
              /\ strictValid(input) = "invalid"
         /\ StructureAccepted => result = FromGeometryValidation

\* all three rejected the value
C25_AllThreeRejected ==
  /\ GeoJSONParsed
  /\ ErrorCodeIs(ERROR_CODES.INVALID_GEOJSON_SCHEMA)
  /\ ~isValidGeoJSON(Decoded)
  /\ strictValid(input) = "invalid"
  /\ ~parsePartialGeoJSON(Decoded).success

(***************************************************************************)
(* MapLayerManager (geohelpertool/src/utils/mapLayerManager.ts 27-400).    *)
(*                                                                         *)
(* map is the MapLibre map the manager was constructed with: its sources   *)
(* (ids) and its layers (id, type, source, visibility).  layerGroups is    *)
(* the manager's Map from a layer id to its LayerGroup.  A method is an    *)
(* operator from the two to what they are when the method returns or       *)
(* throws; the map's own methods do what their names say and never throw.  *)
(***************************************************************************)
Ended(m, groups, thrown) == [map |-> m, layerGroups |-> groups, threw |-> thrown]

\* `layer-source-${layerId}`
sourceIdOf(layerId) == "layer-source-" \o layerId

\* this.map.getSource(sourceId)
getSource(m, sourceId) == sourceId \in m.sources

\* this.map.getLayer(id)
getLayer(m, id) == \E l \in m.layers : l.id = id

\* this.layerGroups.set(layerId, group)
setGroup(groups, layerId, group) ==
  [k \in DOMAIN groups \cup {layerId} |-> IF k = layerId THEN group ELSE groups[k]]

addSource(m, groups, layerId) ==
  IF getSource(m, sourceIdOf(layerId))
  THEN Ended(m, groups, TRUE)
  ELSE Ended([m EXCEPT !.sources = @ \cup {sourceIdOf(layerId)}],
             setGroup(groups, layerId,
                      [sourceId |-> sourceIdOf(layerId),
                       layerIds |-> <<>>,
                       geometryTypes |-> <<>>]),
             FALSE)

Range(seq) == {seq[i] : i \in DOMAIN seq}

\* layerGroup.layerIds.forEach(id => { if (getLayer(id)) removeLayer(id) })
removeMapLayers(m, layerIds) ==
  [m EXCEPT !.layers = {l \in @ : l.id \notin Range(layerIds)}]

removeSource_KeepLayers(m, groups, layerId) ==
  IF layerId \notin DOMAIN groups
  THEN Ended(m, groups, FALSE)
  ELSE Ended([m EXCEPT !.sources = @ \ {groups[layerId].sourceId}],
             [k \in DOMAIN groups \ {layerId} |-> groups[k]],
             FALSE)

removeSource(m, groups, layerId) ==
  IF layerId \notin DOMAIN groups
  THEN Ended(m, groups, FALSE)
  ELSE Ended([removeMapLayers(m, groups[layerId].layerIds)
                EXCEPT !.sources = @ \ {groups[layerId].sourceId}],
             [k \in DOMAIN groups \ {layerId} |-> groups[k]],
             FALSE)

\* Array.from(new Set(...)): the geometry types of the features that have a
\* geometry, each once, in the order they first occur
RECURSIVE distinctTypes(_, _)
distinctTypes(features, seen) ==
  IF features = <<>> THEN seen
  ELSE distinctTypes(Tail(features),
         IF Head(features) = "none" \/ Head(features) \in Range(seen)
         THEN seen ELSE Append(seen, Head(features)))

getGeometryTypes(data) == distinctTypes(data, <<>>)

\* the id and type of createLayerConfig's answer, or what it throws
createLayerConfig(layerId, geometryType) ==
  IF geometryType = "Point"
  THEN [id |-> "layer-" \o layerId \o "-points", type |-> "circle"]
  ELSE IF geometryType = "LineString"
  THEN [id |-> "layer-" \o layerId \o "-lines", type |-> "line"]
  ELSE IF geometryType \in {"Polygon", "MultiPolygon"}
  THEN [id |-> "layer-" \o layerId \o "-fills", type |-> "fill"]
  ELSE Throw("Unsupported geometry type: " \o geometryType)

createPolygonStrokeConfig(layerId) ==
  [id |-> "layer-" \o layerId \o "-strokes", type |-> "line"]

visibilityOf(visible) == IF visible THEN "visible" ELSE "none"

\* if (!this.map.getLayer(config.id)) { this.map.addLayer(...); layerIds.push(config.id) }
addIfAbsent(st, config, layer) ==
  IF getLayer(st.map, config.id)
  THEN st
  ELSE [st EXCEPT
          !.map.layers = @ \cup {[id |-> config.id,
                                  type |-> config.type,
                                  source |-> st.group.sourceId,
                                  visibility |-> visibilityOf(layer.visibility)]},
          !.group.layerIds = Append(@, config.id)]

\* the callback of geometryTypes.forEach in addLayers
addLayersOfType(st, layerId, geometryType, layer) ==
  IF geometryType \in {"Polygon", "MultiPolygon"}
  THEN addIfAbsent(addIfAbsent(st, createLayerConfig(layerId, geometryType), layer),
                   createPolygonStrokeConfig(layerId), layer)
  ELSE IF IsThrow(createLayerConfig(layerId, geometryType))
       THEN [st EXCEPT !.threw = TRUE]
       ELSE addIfAbsent(st, createLayerConfig(layerId, geometryType), layer)

\* geometryTypes.forEach(...), left at the first exception
RECURSIVE addLayersOfTypes(_, _, _, _)
addLayersOfTypes(st, layerId, types, layer) ==
  IF types = <<>> \/ st.threw
  THEN st
  ELSE addLayersOfTypes(addLayersOfType(st, layerId, Head(types), layer),
                        layerId, Tail(types), layer)

\* addLayers once the loop has ended: layerGroup.geometryTypes = geometryTypes
addLayersEnd(st, groups, layerId, types) ==
  Ended(st.map,
        setGroup(groups, layerId,
                 IF st.threw THEN st.group
                 ELSE [st.group EXCEPT !.geometryTypes = types]),
        st.threw)

addLayers(m, groups, layerId, layer) ==
  IF layerId \notin DOMAIN groups
  THEN Ended(m, groups, TRUE)
  ELSE addLayersEnd(
         addLayersOfTypes([map |-> m, group |-> groups[layerId], threw |-> FALSE],
                          layerId, getGeometryTypes(layer.data), layer),
         groups, layerId, getGeometryTypes(layer.data))

removeLayers(m, groups, layerId) ==
  IF layerId \notin DOMAIN groups
  THEN Ended(m, groups, FALSE)
  ELSE Ended(removeMapLayers(m, groups[layerId].layerIds),
             setGroup(groups, layerId,
                      [groups[layerId] EXCEPT !.layerIds = <<>>,
                                              !.geometryTypes = <<>>]),
             FALSE)

updateLayerVisibility(m, groups, layerId, visible) ==
  IF layerId \notin DOMAIN groups
  THEN Ended(m, groups, FALSE)
  ELSE Ended([m EXCEPT !.layers =
                {IF l.id \in Range(groups[layerId].layerIds)
                 THEN [l EXCEPT !.visibility = visibilityOf(visible)]
                 ELSE l : l \in @}],
             groups, FALSE)

\* this.removeLayers(layerId); this.addLayers(layerId, layer)
updateLayerStyle(m, groups, layerId, layer) ==
  addLayers(removeLayers(m, groups, layerId).map,
            removeLayers(m, groups, layerId).layerGroups,
            layerId, layer)

\* Array.from(this.layerGroups.keys()).forEach(layerId => this.removeSource(layerId))
RECURSIVE cleanupOf(_, _, _)
cleanupOf(m, groups, layerIds) ==
  IF layerIds = {}
  THEN Ended(m, groups, FALSE)
  ELSE LET layerId == CHOOSE id \in layerIds : TRUE
       IN  cleanupOf(removeSource(m, groups, layerId).map,
                     removeSource(m, groups, layerId).layerGroups,
                     layerIds \ {layerId})

cleanup(m, groups) == cleanupOf(m, groups, DOMAIN groups)

(***************************************************************************)
(* The manager's state machine: any method, on any layer, at any time.     *)
(***************************************************************************)
ManagedIds == {"a", "b"}

\* the data of a layer: the geometry type of each of its features, "none"
\* for a feature without geometry
ManagedData ==
  {<<"none", "Point", "Point">>,
   <<"Polygon", "MultiPolygon">>,
   <<"LineString", "MultiLineString">>,
   <<"MultiLineString", "Point">>}

ManagedLayers ==
  {[data |-> data, visibility |-> visible] :
     data \in ManagedData, visible \in BOOLEAN}

InitManager ==
  /\ map = [sources |-> {}, layers |-> {}]
  /\ layerGroups = [k \in {} |-> NoResult]
  /\ called = NoCall
  /\ threw = FALSE
  /\ input = NoResult
  /\ result = NoResult
  /\ state = NoResult
  /\ rendered = NoResult

\* the method has run: the map, the bookkeeping, and whether it threw
Ends(fn, arguments, end) ==
  /\ called' = Call(fn, arguments)
  /\ map' = end.map
  /\ layerGroups' = end.layerGroups
  /\ threw' = end.threw
  /\ UNCHANGED <<input, result, state, rendered>>

CallAddSource ==
  \E layerId \in ManagedIds :
    Ends("addSource", [layerId |-> layerId], addSource(map, layerGroups, layerId))

CallRemoveSource ==
  \E layerId \in ManagedIds :
    Ends("removeSource", [layerId |-> layerId], removeSource(map, layerGroups, layerId))

CallAddLayers ==
  \E layerId \in ManagedIds, layer \in ManagedLayers :
    Ends("addLayers", [layerId |-> layerId],
         addLayers(map, layerGroups, layerId, layer))

CallRemoveLayers ==
  \E layerId \in ManagedIds :
    Ends("removeLayers", [layerId |-> layerId], removeLayers(map, layerGroups, layerId))

CallUpdateLayerVisibility ==
  \E layerId \in ManagedIds, visible \in BOOLEAN :
    Ends("updateLayerVisibility", [layerId |-> layerId],
         updateLayerVisibility(map, layerGroups, layerId, visible))

CallUpdateLayerStyle ==
  \E layerId \in ManagedIds, layer \in ManagedLayers :
    Ends("updateLayerStyle", [layerId |-> layerId],
         updateLayerStyle(map, layerGroups, layerId, layer))

CallCleanup ==
  Ends("cleanup", [layerId |-> "all"], cleanup(map, layerGroups))

NextManager ==
  \/ CallAddSource
  \/ CallRemoveSource
  \/ CallAddLayers
  \/ CallRemoveLayers
  \/ CallUpdateLayerVisibility
  \/ CallUpdateLayerStyle
  \/ CallCleanup

SpecManager == InitManager /\ [][NextManager]_vars

\* C28: after any sequence of the manager's methods, those that throw
\* included, the bookkeeping matches the map: a group is recorded for an id
\* exactly when the map has the source layer-source-<id>; every layer id
\* recorded in a group is a layer of the map that uses the group's source;
\* and after removeSource(id) or cleanup() neither the source nor a layer of
\* a removed group is left on the map.
C28_BookkeepingMatchesMap ==
  /\ \A layerId \in ManagedIds :
       layerId \in DOMAIN layerGroups <=> sourceIdOf(layerId) \in map.sources
  /\ \A layerId \in DOMAIN layerGroups :
       \A i \in DOMAIN layerGroups[layerId].layerIds :
         \E l \in map.layers :
           /\ l.id = layerGroups[layerId].layerIds[i]
           /\ l.source = layerGroups[layerId].sourceId
  /\ called.fn = "removeSource" =>
       /\ called.options.layerId \notin DOMAIN layerGroups
       /\ sourceIdOf(called.options.layerId) \notin map.sources
       /\ \A l \in map.layers : l.source # sourceIdOf(called.options.layerId)
  /\ called.fn = "cleanup" =>
       /\ DOMAIN layerGroups = {}
       /\ map.sources = {}
       /\ map.layers = {}

\* a group with the two layers of a polygon was removed while the other
\* group keeps its layer
C28_RemovedGroupWithLayers ==
  /\ called.fn = "removeSource"
  /\ called.options.layerId = "a"
  /\ threw = FALSE
  /\ "b" \in DOMAIN layerGroups
  /\ Len(layerGroups["b"].layerIds) = 3

(***************************************************************************)
(* The layer state: layerReducer (utils/colorPalette.ts 207-308) and the   *)
(* actions of the useLayerState hook (part_005).                           *)
(*                                                                         *)
(* state is the LayerState the reducer holds.  A layer is a record of its  *)
(* id, visibility, color and options; data, name and the two dates are     *)
(* left out.  rendered holds the ids of state.layers as of the last        *)
(* render: the hook's callbacks close over the state of the render that    *)
(* created them ([state.layers] in their dependency lists) and validate    *)
(* ids against it, while dispatch applies the action to the current state. *)
(***************************************************************************)
\* most layers in the list
MaxLayers == 2

\* layerCount is not counted beyond this
MaxLayerCount == 3

\* the ids generateLayerId can return
IdPool == {"layer_1", "layer_2"}

\* activeLayerId: null
NoLayerId == "null"

initialLayerState == [layers |-> <<>>, activeLayerId |-> NoLayerId, layerCount |-> 0]

idsOf(layers) == {layers[i].id : i \in DOMAIN layers}

\* { ...object, ...updates }
spread(object, updates) ==
  [k \in DOMAIN object \cup DOMAIN updates |->
     IF k \in DOMAIN updates THEN updates[k] ELSE object[k]]

\* state.layers.map(layer => layer.id === id ? change(layer) : layer)
mapLayer(layers, id, updates) ==
  [i \in DOMAIN layers |->
     IF layers[i].id = id THEN spread(layers[i], updates) ELSE layers[i]]

\* state.layers.filter(layer => layer.id !== id)
RECURSIVE filterOut(_, _)
filterOut(layers, id) ==
  IF layers = <<>> THEN <<>>
  ELSE IF Head(layers).id = id
       THEN filterOut(Tail(layers), id)
       ELSE <<Head(layers)>> \o filterOut(Tail(layers), id)

\* { ...layer, visibility: !layer.visibility }
toggled(layers, id) ==
  [i \in DOMAIN layers |->
     IF layers[i].id = id
     THEN [layers[i] EXCEPT !.visibility = ~@]
     ELSE layers[i]]

\* { ...layer, options: { ...layer.options, ...options } }
withOptions(layers, id, options) ==
  [i \in DOMAIN layers |->
     IF layers[i].id = id
     THEN [layers[i] EXCEPT !.options = spread(@, options)]
     ELSE layers[i]]

\* layerReducer; newId is what generateUniqueLayerId(state.layers) returns
layerReducer(st, action, newId) ==
  IF action.type = "ADD_LAYER"
  THEN [st EXCEPT !.layers = Append(@, spread([id |-> newId], action.payload)),
                  !.layerCount = @ + 1]
  ELSE IF action.type = "REMOVE_LAYER"
  THEN [st EXCEPT !.layers = filterOut(@, action.payload.id),
                  !.activeLayerId = IF @ = action.payload.id THEN NoLayerId ELSE @]
  ELSE IF action.type = "UPDATE_LAYER"
  THEN [st EXCEPT !.layers = mapLayer(@, action.payload.id, action.payload.updates)]
  ELSE IF action.type = "TOGGLE_VISIBILITY"
  THEN [st EXCEPT !.layers = toggled(@, action.payload.id)]
  ELSE IF action.type = "UPDATE_COLOR"
  THEN [st EXCEPT !.layers = mapLayer(@, action.payload.id,
                                      [color |-> action.payload.color])]
  ELSE IF action.type = "UPDATE_OPTIONS"
  THEN [st EXCEPT !.layers = withOptions(@, action.payload.id, action.payload.options)]
  ELSE IF action.type = "SET_ACTIVE_LAYER"
  THEN [st EXCEPT !.activeLayerId = action.payload.id]
  ELSE IF action.type = "CLEAR_LAYERS"
  THEN [layers |-> <<>>, activeLayerId |-> NoLayerId, layerCount |-> 0]
  ELSE st

(***************************************************************************)
(* The reducer's state machine: any action, with any payload, at any time. *)
(***************************************************************************)
Colors == {"blue", "green"}

OptionValues == {[strokeWidth |-> 2], [strokeWidth |-> 3]}

\* Omit<Layer, 'id' | 'createdAt' | 'updatedAt'>
LayerPayloads ==
  {[color |-> c, visibility |-> v, options |-> o] :
     c \in Colors, v \in BOOLEAN, o \in OptionValues}

\* Partial<Layer>
LayerUpdates == {[visibility |-> FALSE]} \cup {[id |-> id] : id \in IdPool}

\* generateUniqueLayerId(state.layers): an id no layer of the list has
FreshIds(st) == IdPool \ idsOf(st.layers)

InitReducer ==
  /\ state = initialLayerState
  /\ rendered = {}
  /\ called = NoCall
  /\ threw = FALSE
  /\ input = NoResult
  /\ result = NoResult
  /\ map = NoResult
  /\ layerGroups = NoResult

Dispatch(action, newId) ==
  /\ state' = layerReducer(state, action, newId)
  /\ UNCHANGED <<input, called, result, threw, map, layerGroups, rendered>>

DispatchAddLayer ==
  /\ Len(state.layers) < MaxLayers
  /\ state.layerCount < MaxLayerCount
  /\ \E payload \in LayerPayloads, newId \in FreshIds(state) :
       Dispatch([type |-> "ADD_LAYER", payload |-> payload], newId)

DispatchRemoveLayer ==
  \E id \in IdPool :
    Dispatch([type |-> "REMOVE_LAYER", payload |-> [id |-> id]], NoLayerId)

DispatchUpdateLayer ==
  \E id \in IdPool, updates \in LayerUpdates :
    Dispatch([type |-> "UPDATE_LAYER", payload |-> [id |-> id, updates |-> updates]],
             NoLayerId)

DispatchToggleVisibility ==
  \E id \in IdPool :
    Dispatch([type |-> "TOGGLE_VISIBILITY", payload |-> [id |-> id]], NoLayerId)

DispatchUpdateColor ==
  \E id \in IdPool, color \in Colors :
    Dispatch([type |-> "UPDATE_COLOR", payload |-> [id |-> id, color |-> color]],
             NoLayerId)

DispatchUpdateOptions ==
  \E id \in IdPool, options \in OptionValues :
    Dispatch([type |-> "UPDATE_OPTIONS", payload |-> [id |-> id, options |-> options]],
             NoLayerId)

DispatchSetActiveLayer ==
  \E id \in IdPool \cup {NoLayerId} :
    Dispatch([type |-> "SET_ACTIVE_LAYER", payload |-> [id |-> id]], NoLayerId)

DispatchClearLayers ==
  Dispatch([type |-> "CLEAR_LAYERS"], NoLayerId)

NextReducer ==
  \/ DispatchAddLayer
  \/ DispatchRemoveLayer
  \/ DispatchUpdateLayer
  \/ DispatchToggleVisibility
  \/ DispatchUpdateColor
  \/ DispatchUpdateOptions
  \/ DispatchSetActiveLayer
  \/ DispatchClearLayers

SpecReducer == InitReducer /\ [][NextReducer]_vars

\* C30: from initialLayerState, after any sequence of reducer actions,
\* layerCount is the number of layers in the list.
C30_CountIsLength == state.layerCount = Len(state.layers)

\* what the reducer keeps instead: layerCount counts the ADD_LAYER actions
\* since the last CLEAR_LAYERS, and is never below the number of layers
C30_CountNeverBelowLength == state.layerCount >= Len(state.layers)

(***************************************************************************)
(* The hook's state machine: its actions in any order, a render at any     *)
(* time between them.                                                      *)
(***************************************************************************)
InitHook ==
  /\ state = initialLayerState
  /\ rendered = {}
  /\ called = NoCall
  /\ threw = FALSE
  /\ input = NoResult
  /\ result = NoResult
  /\ map = NoResult
  /\ layerGroups = NoResult

\* layerManagement.validateLayerId(id, state.layers), on the rendered state
validateLayerId(id) == id \in rendered

\* an action of the hook was called with id: the state after it, and what
\* the call found and did
Acted(fn, id, after, thrown) ==
  /\ state' = after
  /\ called' = Call(fn, [id |-> id,
                         wasActive |-> state.activeLayerId = id,
                         wasListed |-> id \in idsOf(state.layers),
                         changed |-> after # state])
  /\ threw' = thrown
  /\ UNCHANGED <<input, result, map, layerGroups, rendered>>

\* if (validateLayerId(id, state.layers)) dispatch(action) else console.warn
dispatchIfListed(id, action) ==
  IF validateLayerId(id) THEN layerReducer(state, action, NoLayerId) ELSE state

\* layerManagement.addLayer(...): the payload of a new, visible layer
NewLayerPayloads == {payload \in LayerPayloads : payload.visibility}

HookAddLayer ==
  /\ Len(state.layers) < MaxLayers
  /\ state.layerCount < MaxLayerCount
  /\ \E payload \in NewLayerPayloads, newId \in FreshIds(state) :
       Acted("addLayer", NoLayerId,
             layerReducer(state, [type |-> "ADD_LAYER", payload |-> payload], newId),
             FALSE)

HookRemoveLayer ==
  \E id \in IdPool :
    Acted("removeLayer", id,
          dispatchIfListed(id, [type |-> "REMOVE_LAYER", payload |-> [id |-> id]]),
          FALSE)

HookUpdateLayer ==
  \E id \in IdPool, updates \in LayerUpdates :
    Acted("updateLayer", id,
          dispatchIfListed(id, [type |-> "UPDATE_LAYER",
                                payload |-> [id |-> id, updates |-> updates]]),
          FALSE)

HookToggleVisibility ==
  \E id \in IdPool :
    Acted("toggleVisibility", id,
          dispatchIfListed(id, [type |-> "TOGGLE_VISIBILITY", payload |-> [id |-> id]]),
          FALSE)

\* validateColor(color) holds of every color of the palette
HookUpdateColor ==
  \E id \in IdPool, color \in Colors :
    Acted("updateColor", id,
          dispatchIfListed(id, [type |-> "UPDATE_COLOR",
                                payload |-> [id |-> id, color |-> color]]),
          FALSE)

HookUpdateOptions ==
  \E id \in IdPool, options \in OptionValues :
    Acted("updateOptions", id,
          dispatchIfListed(id, [type |-> "UPDATE_OPTIONS",
                                payload |-> [id |-> id, options |-> options]]),
          FALSE)

\* if (id === null || validateLayerId(id, state.layers)) dispatch(...)
HookSetActiveLayer ==
  \E id \in IdPool \cup {NoLayerId} :
    Acted("setActiveLayer", id,
          IF id = NoLayerId \/ validateLayerId(id)
          THEN layerReducer(state, [type |-> "SET_ACTIVE_LAYER", payload |-> [id |-> id]],
                            NoLayerId)
          ELSE state,
          FALSE)

HookClearLayers ==
  Acted("clearLayers", NoLayerId,
        layerReducer(state, [type |-> "CLEAR_LAYERS"], NoLayerId), FALSE)

\* layers.forEach(layer => dispatch({ type: 'ADD_LAYER', payload: layerData }))
RECURSIVE addAll(_, _, _)
addAll(st, payloads, newIds) ==
  IF payloads = <<>> THEN st
  ELSE addAll(layerReducer(st, [type |-> "ADD_LAYER", payload |-> Head(payloads)],
                           Head(newIds)),
              Tail(payloads), Tail(newIds))

\* the layers of an imported document, and the ids they are given
ImportedLayers == UNION {[1..n -> LayerPayloads] : n \in 0..MaxLayers}

ImportedIds(n) ==
  {ids \in [1..n -> IdPool] : \A i, j \in 1..n : ids[i] = ids[j] => i = j}

\* utils.importLayers: CLEAR_LAYERS, then ADD_LAYER for each imported layer;
\* a document that cannot be parsed is rethrown before any dispatch
HookImportLayers ==
  \/ Acted("importLayers", NoLayerId, state, TRUE)
  \/ \E payloads \in ImportedLayers :
       \E newIds \in ImportedIds(Len(payloads)) :
         Acted("importLayers", NoLayerId,
               addAll(layerReducer(state, [type |-> "CLEAR_LAYERS"], NoLayerId),
                      payloads, newIds),
               FALSE)

\* the component renders again: new callbacks close over the current state
Render ==
  /\ rendered' = idsOf(state.layers)
  /\ UNCHANGED <<input, called, result, threw, map, layerGroups, state>>

NextHook ==
  \/ HookAddLayer
  \/ HookRemoveLayer
  \/ HookUpdateLayer
  \/ HookToggleVisibility
  \/ HookUpdateColor
  \/ HookUpdateOptions
  \/ HookSetActiveLayer
  \/ HookClearLayers
  \/ HookImportLayers
  \/ Render

SpecHook == InitHook /\ [][NextHook]_vars

\* C29: after any sequence of the hook's actions, activeLayerId is null or
\* the id of a layer of the list; removing the active layer or clearing the
\* layers resets it to null; setActiveLayer with an id that is not in the
\* list leaves the state unchanged.
C29_ActiveLayerListed ==
  /\ state.activeLayerId = NoLayerId \/ state.activeLayerId \in idsOf(state.layers)
  /\ (called.fn = "removeLayer" /\ called.options.wasActive) =>
       state.activeLayerId = NoLayerId
  /\ called.fn = "clearLayers" => state.activeLayerId = NoLayerId
  /\ (called.fn = "setActiveLayer" /\ called.options.id # NoLayerId
        /\ ~called.options.wasListed) =>
       ~called.options.changed

====
